---- MODULE Spec2Model ----
(***************************************************************************)
(* A model of the mnemon memory engine (bissli/mnemon): the SQLite store   *)
(* (insights, edges, oplog), the write pipeline of `remember` with its     *)
(* write transaction, the four automatic edge generators, the retention    *)
(* controller (auto_prune), and the CLI commands that read or mutate the   *)
(* store.  Every CLI invocation is its own OS process with its own         *)
(* connection; the store file is shared.                                   *)
(***************************************************************************)
EXTENDS Integers, Sequences, FiniteSets, TLC

(***************************************************************************)
(* Bounds of the model.                                                    *)
(***************************************************************************)
\* number of `remember` invocations explored (each draws a fresh uuid4)
MaxIds == 3
\* store/node.py:14 MAX_INSIGHTS = 1000, scaled down so that the store can
\* go over capacity within MaxIds insights
MAX_INSIGHTS == 1
\* store/node.py:15 PRUNE_BATCH_SIZE = 10, scaled down with MAX_INSIGHTS
PRUNE_BATCH_SIZE == 1
\* access_count is unbounded in the code: gc --keep is explored while the
\* counter stays within MaxAccess, the reading commands (which bump the
\* counter of every result) while the counters of their results are
\* below MaxReads
MaxAccess == 3
MaxReads == 1
\* store/oplog.py:11 MAX_OPLOG_ENTRIES = 5000, scaled down so that the
\* trim happens
MAX_OPLOG_ENTRIES == 1
\* number of `remember` invocations running at the same time
MaxProcs == 2

(***************************************************************************)
(* Program constants.                                                      *)
(***************************************************************************)
TEMPORAL_WINDOW_HOURS == 24
MAX_PROXIMITY_EDGES == 10
MAX_ENTITY_LINKS == 5
MAX_TOTAL_ENTITY_EDGES == 50
CAUSAL_LOOKBACK == 10
MAX_AUTO_SEMANTIC_EDGES == 3
DIFF_LIMIT == 5
\* cli.py: the default --limit of recall and search, --depth of related
DEFAULT_LIMIT == 10
DEFAULT_DEPTH == 2
\* search/recall.py TRAVERSAL_PARAMS: max_depth of ENTITY and GENERAL
RECALL_MAX_DEPTH == 4

\* SQL NULL and Python None.  A value that may be absent is <<>> when
\* absent and <<v>> when present (a vector, itself a tuple, is stored
\* bare); an id that may be absent is 0, ids being 1..MaxIds
NULL == <<>>
NoId == 0
Ids == 1..MaxIds
VALID_EDGE_TYPES == {"temporal", "semantic", "causal", "entity"}
VALID_CATEGORIES ==
    {"preference", "decision", "fact", "insight", "context", "general"}

\* store/db.py: a store name is a sequence of characters; the ones used
\* are a letter, a digit, the underscore, the hyphen and the dot
DEFAULT_STORE_NAME == <<"d", "e", "f", "a", "u", "l", "t">>
AlphaNum == {"a", "d", "e", "f", "l", "t", "u", "0"}

\* ^[a-zA-Z0-9][a-zA-Z0-9_-]*$ with re.match: the $ of Python matches at
\* the end of the name and also before a newline that ends it
valid_store_name(name) ==
    LET matched == IF name /= <<>> /\ name[Len(name)] = "\n"
                   THEN SubSeq(name, 1, Len(name) - 1)
                   ELSE name
    IN /\ Len(matched) >= 1
       /\ matched[1] \in AlphaNum
       /\ \A i \in 1..Len(matched) : matched[i] \in AlphaNum \cup {"_", "-"}

(***************************************************************************)
(* Input data: the texts that are remembered.  For each text the tables    *)
(* hold what the program's text functions return for it (computed with     *)
(* the program's own tokenize, has_causal_signal, extract_entities and     *)
(* NEGATION_WORDS scan), and the vector the embedding service returns.     *)
(*   T1 = "Go compiles fast with static linking"                           *)
(*   T2 = "Chose Go because it compiles fast"                              *)
(*   T3 = "Go no longer compiles fast"                                     *)
(*   T4 = "Redis caches sessions"                                          *)
(*   T5 = "Redis caches Go sessions"                                       *)
(***************************************************************************)
Contents == {"T1", "T2", "T3", "T4"}

tokenize(text) ==
    CASE text = "T1" -> {"go", "compiles", "fast", "static", "linking"}
      [] text = "T2" -> {"chose", "go", "because", "compiles", "fast"}
      [] text = "T3" -> {"go", "longer", "compiles", "fast"}
      [] text = "T4" -> {"redis", "caches", "sessions"}
      [] text = "T5" -> {"redis", "caches", "go", "sessions"}
      [] text = "Go" -> {"go"}
      [] text = "Redis" -> {"redis"}
      [] OTHER -> {}

has_causal_signal(text) == text = "T2"

has_negation(text) == text = "T3"

\* suggest_sub_type of the two texts joined by a space
suggest_sub_type(new_text, prev_text) == "causes"

extract_entities(text) ==
    CASE text \in {"T1", "T2", "T3"} -> <<"Go">>
      [] text = "T4" -> <<"Redis">>
      [] text = "T5" -> <<"Redis", "Go">>
      [] OTHER -> <<>>

\* the queries of recall and search
Queries == {"Go", "Redis"}

\* content LIKE '%keyword%'
Like(content, keyword) ==
    \/ keyword = "Go" /\ content \in {"T1", "T2", "T3", "T5"}
    \/ keyword = "Redis" /\ content \in {"T4", "T5"}

\* the embedding service's vector for a text
embed(text) ==
    CASE text = "T1" -> <<10, 0>>
      [] text = "T2" -> <<10, 1>>
      [] text = "T3" -> <<3, 4>>
      [] text = "T4" -> <<0, 1>>
      [] text = "T5" -> <<1, 1>>
      [] text = "Go" -> <<1, 0>>
      [] OTHER -> <<0, 1>>

(***************************************************************************)
(* Small helpers.                                                          *)
(***************************************************************************)
Max(a, b) == IF a >= b THEN a ELSE b
Min(a, b) == IF a <= b THEN a ELSE b
Abs(x) == IF x < 0 THEN -x ELSE x
Range(s) == {s[k] : k \in 1..Len(s)}

RECURSIVE SortAsc(_, _)
\* the elements of S as a sequence, in ascending order of key[x] (key is a
\* function on S with pairwise different values)
SortAsc(S, key) ==
    IF S = {} THEN <<>>
    ELSE LET first == CHOOSE x \in S : \A y \in S : key[x] <= key[y]
         IN <<first>> \o SortAsc(S \ {first}, key)

SortDesc(S, key) == SortAsc(S, [x \in S |-> -key[x]])

Take(s, n) == SubSeq(s, 1, Min(n, Len(s)))

(***************************************************************************)
(* embed/vector.py                                                         *)
(***************************************************************************)
Dot(a, b) == a[1] * b[1] + a[2] * b[2]
\* cosine_similarity(a, b) >= num/den, for num/den >= 0, without floats:
\* dot/(|a||b|) >= num/den  <=>  dot >= 0 /\ dot^2 den^2 >= num^2 |a|^2 |b|^2
\* (cosine is 0 when a norm is 0)
CosGE(a, b, num, den) ==
    IF Dot(a, a) = 0 \/ Dot(b, b) = 0 THEN num = 0
    ELSE /\ Dot(a, b) >= 0
         /\ Dot(a, b) * Dot(a, b) * den * den
                >= num * num * Dot(a, a) * Dot(b, b)
CosGT(a, b, num, den) ==
    IF Dot(a, a) = 0 \/ Dot(b, b) = 0 THEN FALSE
    ELSE /\ Dot(a, b) > 0
         /\ Dot(a, b) * Dot(a, b) * den * den
                > num * num * Dot(a, a) * Dot(b, b)
\* the cosine as an exact value: <<sign * dot^2, |a|^2 |b|^2>>, its square
\* with its sign, as a fraction
cosine_similarity(a, b) ==
    IF Dot(a, a) = 0 \/ Dot(b, b) = 0 THEN <<0, 1>>
    ELSE <<(IF Dot(a, b) < 0 THEN -1 ELSE 1) * Dot(a, b) * Dot(a, b),
           Dot(a, a) * Dot(b, b)>>
\* c1 < c2 for two cosines in that form
CosLess(c1, c2) == c1[1] * c2[2] < c2[1] * c1[2]

(***************************************************************************)
(* model.py                                                                *)
(***************************************************************************)
\* base_weight, in hundredths
base_weight(importance) ==
    CASE importance = 5 -> 100
      [] importance = 4 -> 80
      [] importance = 3 -> 50
      [] importance = 2 -> 30
      [] OTHER -> 15

is_immune(importance, access_count) == importance >= 4 \/ access_count >= 3

(***************************************************************************)
(* The store: store/db.py (schema), store/node.py, store/edge.py,          *)
(* store/oplog.py.  A database state is a record                           *)
(*   insights : a function from the ids that have a row to their rows      *)
(*   edges    : the set of edge rows                                       *)
(*   oplog    : the sequence of oplog rows, oldest first                   *)
(***************************************************************************)
\* db.py:194: effective_importance REAL DEFAULT 0.5, in the unit of
\* compute_effective_importance below (1.0 = 1,000,000)
DEFAULT_EI == 500000

EmptyDb == [insights |-> <<>>, edges |-> {}, oplog |-> <<>>]

\* the ids that have a row, and those whose row is not soft-deleted
RowIds(d) == DOMAIN d.insights
ActiveIds(d) == {id \in RowIds(d) : d.insights[id].deleted_at = NULL}

\* raises IntegrityError (ok = FALSE) when the id already has a row
insert_insight(d, i) ==
    IF i.id \in RowIds(d)
    THEN [ok |-> FALSE, db |-> d]
    ELSE [ok |-> TRUE,
          db |-> [d EXCEPT !.insights =
                     [id \in RowIds(d) \cup {i.id} |->
                         IF id = i.id
                         THEN [content |-> i.content,
                               category |-> i.category,
                               importance |-> i.importance,
                               source |-> i.source,
                               entities |-> i.entities,
                               access_count |-> i.access_count,
                               created_at |-> i.created_at,
                               deleted_at |-> NULL, embedding |-> NULL,
                               effective_importance |-> DEFAULT_EI]
                         ELSE d.insights[id]]]]

get_insight_by_id_include_deleted(d, id) ==
    IF id \in RowIds(d) THEN <<d.insights[id]>> ELSE NULL

get_insight_by_id(d, id) ==
    IF id \in ActiveIds(d) THEN <<d.insights[id]>> ELSE NULL

\* SELECT ... FROM insights without the deleted_at filter
get_all_insights(d) == RowIds(d)

\* SELECT ... FROM insights WHERE deleted_at IS NULL
get_all_active_insights(d) == ActiveIds(d)

count_active_insights(d) == Cardinality(ActiveIds(d))

EdgeKey(e) == <<e.source_id, e.target_id, e.edge_type>>

\* a plain INSERT that keeps a second row with the same primary key beside
\* the first
insert_edge_no_replace(d, e) ==
    IF {e.source_id, e.target_id} \subseteq RowIds(d)
    THEN [d EXCEPT !.edges = @ \cup {e}]
    ELSE d

\* INSERT OR REPLACE on the primary key (source_id, target_id, edge_type).
\* Both ids are foreign keys into insights (a soft-deleted row satisfies
\* them): without the rows the statement raises and nothing is written;
\* the generators catch the exception, link checks the rows first.
insert_edge(d, e) ==
    IF {e.source_id, e.target_id} \subseteq RowIds(d)
    THEN [d EXCEPT !.edges = {x \in @ : EdgeKey(x) /= EdgeKey(e)} \cup {e}]
    ELSE d

get_edges_by_node(d, node_id) ==
    {e \in d.edges : e.source_id = node_id \/ e.target_id = node_id}

\* DELETE FROM edges WHERE source_id = ? only
delete_edges_by_source(d, node_id) ==
    [d EXCEPT !.edges = {e \in @ : e.source_id /= node_id}]

\* DELETE FROM edges WHERE source_id = ? OR target_id = ?
delete_edges_by_node(d, node_id) ==
    [d EXCEPT !.edges =
        {e \in @ : e.source_id /= node_id /\ e.target_id /= node_id}]

\* the rows matched by WHERE id = ? AND deleted_at IS NULL
SoftDeleteMatched(d, id) ==
    {i \in RowIds(d) : i = id /\ d.insights[i].deleted_at = NULL}

\* UPDATE insights SET deleted_at = ?, updated_at = ? on the matched rows
\* (updated_at is written with deleted_at, by the same statement, on the
\* same rows and with the same value: deleted_at stands for both)
SoftDeleteUpdate(d, id, now) ==
    [d EXCEPT !.insights =
        [i \in RowIds(d) |->
            IF i \in SoftDeleteMatched(d, id)
            THEN [d.insights[i] EXCEPT !.deleted_at = <<now>>]
            ELSE d.insights[i]]]

\* a soft delete that removes the edges before it looks at the row count
soft_delete_insight_edges_first(d, id, now) ==
    [ok |-> SoftDeleteMatched(d, id) /= {},
     db |-> delete_edges_by_node(SoftDeleteUpdate(d, id, now), id)]

\* the UPDATE, then ValueError (ok = FALSE) when its rowcount is 0, then
\* delete_edges_by_node
soft_delete_insight(d, id, now) ==
    LET updated == SoftDeleteUpdate(d, id, now)
        rowcount == Cardinality(SoftDeleteMatched(d, id))
    IN IF rowcount = 0
       THEN [ok |-> FALSE, db |-> updated]
       ELSE [ok |-> TRUE, db |-> delete_edges_by_node(updated, id)]

update_entities(d, id, entities) ==
    IF id \in RowIds(d)
    THEN [d EXCEPT !.insights[id].entities = entities]
    ELSE d

update_embedding(d, id, blob) ==
    IF id \in RowIds(d)
    THEN [d EXCEPT !.insights[id].embedding = blob]
    ELSE d

increment_access_count(d, id) ==
    IF id \in RowIds(d)
    THEN [d EXCEPT !.insights[id].access_count = @ + 1]
    ELSE d

\* raises ValueError (ok = FALSE) when no active row has the id
boost_retention(d, id) ==
    IF id \notin ActiveIds(d)
    THEN [ok |-> FALSE, db |-> d]
    ELSE [ok |-> TRUE, db |-> [d EXCEPT !.insights[id].access_count = @ + 3]]

\* max(ln(1 + access_count), 1), in thousandths
AccessFactor(access_count) ==
    CASE access_count <= 1 -> 1000
      [] access_count = 2 -> 1099
      [] access_count = 3 -> 1386
      [] access_count = 4 -> 1609
      [] access_count = 5 -> 1792
      [] access_count = 6 -> 1946
      [] OTHER -> 2079

\* base * access_factor * decay * edge_factor, in millionths; the runs
\* explored span less than a day, where the decay factor 0.5^(days/30)
\* is 1 to within the spacing of the other factors
compute_effective_importance(importance, access_count, edge_count) ==
    base_weight(importance) * AccessFactor(access_count)
        * (10 + Min(edge_count, 5))

EdgeCount(d, id) ==
    Cardinality({e \in d.edges : e.source_id = id})
        + Cardinality({e \in d.edges : e.target_id = id})

\* raises ValueError (ok = FALSE) when no active row has the id
refresh_effective_importance(d, id) ==
    IF id \notin ActiveIds(d)
    THEN [ok |-> FALSE, db |-> d]
    ELSE [ok |-> TRUE,
          db |-> [d EXCEPT !.insights[id].effective_importance =
                     compute_effective_importance(
                         d.insights[id].importance,
                         d.insights[id].access_count, EdgeCount(d, id))]]

\* the oplog rows of d with their ids: AUTOINCREMENT gives consecutive
\* ids and only the oldest rows are ever deleted, so the rows are numbered
\* from the oldest one kept (the trim depends on differences of ids only)
OplogRows(d) ==
    [i \in 1..Len(d.oplog) |->
        [id |-> i, operation |-> d.oplog[i].operation,
         insight_id |-> d.oplog[i].insight_id]]

\* INSERT INTO oplog: the new row takes the next id
OplogInsert(rows, operation, insight_id) ==
    Append(rows, [id |-> Len(rows) + 1, operation |-> operation,
                  insight_id |-> insight_id])

\* SELECT MAX(id) FROM oplog
OplogMaxId(rows) == IF rows = <<>> THEN 0 ELSE rows[Len(rows)].id

\* a trim that compares with < where the statement has <=
OplogTrimStrict(rows) ==
    LET Kept(r) == ~(r.id < OplogMaxId(rows) - MAX_OPLOG_ENTRIES)
    IN SelectSeq(rows, Kept)

\* DELETE FROM oplog WHERE id <= (SELECT MAX(id) FROM oplog) - ?
OplogTrim(rows) ==
    LET Kept(r) == ~(r.id <= OplogMaxId(rows) - MAX_OPLOG_ENTRIES)
    IN SelectSeq(rows, Kept)

\* store/oplog.py log_op: the INSERT, then the trim
log_op(d, operation, insight_id) ==
    LET rows == OplogTrim(OplogInsert(OplogRows(d), operation, insight_id))
    IN [d EXCEPT !.oplog =
           [i \in 1..Len(rows) |->
               [operation |-> rows[i].operation,
                insight_id |-> rows[i].insight_id]]]

\* the candidates without any filter on importance, access count or the
\* exclude list
PruneCandidatesUnfiltered(d, exclude_ids) == ActiveIds(d)

\* a SELECT without the `id NOT IN (...)` clause
PruneCandidatesNotExcluding(d, exclude_ids) ==
    {id \in ActiveIds(d) :
        /\ d.insights[id].importance < 4
        /\ d.insights[id].access_count < 3}

\* a SELECT without the `access_count < 3` condition
PruneCandidatesByImportance(d, exclude_ids) ==
    {id \in ActiveIds(d) :
        /\ d.insights[id].importance < 4
        /\ id \notin exclude_ids}

\* the rows auto_prune's SELECT may return: active, importance < 4,
\* access_count < 3, id not excluded
PruneCandidates(d, exclude_ids) ==
    {id \in ActiveIds(d) :
        /\ d.insights[id].importance < 4
        /\ d.insights[id].access_count < 3
        /\ id \notin exclude_ids}

\* a SELECT with the LIMIT and without the ORDER BY
PruneVictimSetsUnordered(d, exclude_ids, excess) ==
    LET cands == PruneCandidates(d, exclude_ids)
    IN {V \in SUBSET cands : Cardinality(V) = Min(excess, Cardinality(cands))}

\* ORDER BY effective_importance ASC LIMIT excess: the sets of rows the
\* SELECT can return (rows with equal effective importance come in an
\* order SQLite does not fix)
PruneVictimSets(d, exclude_ids, excess) ==
    LET cands == PruneCandidates(d, exclude_ids)
        n == Min(excess, Cardinality(cands))
    IN {V \in SUBSET cands :
           /\ Cardinality(V) = n
           /\ \A v \in V : \A c \in cands \ V :
                  d.insights[v].effective_importance
                      <= d.insights[c].effective_importance}

RECURSIVE PruneRows(_, _, _)
\* the loop over the selected rows: UPDATE deleted_at, then
\* delete_edges_by_node
PruneRows(d, V, now) ==
    IF V = {} THEN d
    ELSE LET cid == CHOOSE x \in V : TRUE
         IN PruneRows(
                delete_edges_by_node(
                    [d EXCEPT !.insights[cid].deleted_at = <<now>>], cid),
                V \ {cid}, now)

\* a prune that never deletes
auto_prune_nothing(d, max_insights, exclude_ids, now) ==
    {[pruned |-> 0, db |-> d]}

\* auto_prune: the set of possible results [pruned, db]
auto_prune(d, max_insights, exclude_ids, now) ==
    LET total == count_active_insights(d)
    IN IF total <= max_insights
       THEN {[pruned |-> 0, db |-> d]}
       ELSE {[pruned |-> Cardinality(V), db |-> PruneRows(d, V, now)] :
                V \in PruneVictimSets(
                         d, exclude_ids,
                         Min(total - max_insights, PRUNE_BATCH_SIZE))}

\* a migration that resets deleted_at on every row
migrate_resetting(d, now) ==
    [d EXCEPT !.insights =
        [id \in RowIds(d) |-> [d.insights[id] EXCEPT !.deleted_at = NULL]]]

\* store/db.py _migrate on a store with the current schema: narrative
\* insights that are still active are soft-deleted
migrate(d, now) ==
    [d EXCEPT !.insights =
        [id \in RowIds(d) |->
            IF id \in ActiveIds(d) /\ d.insights[id].category = "narrative"
            THEN [d.insights[id] EXCEPT !.deleted_at = <<now>>]
            ELSE d.insights[id]]]

\* a transaction whose except branch re-raises without ROLLBACK
in_transaction_no_rollback(pre, body) == body

\* DB.in_transaction: pre is the store at BEGIN IMMEDIATE, body the result
\* [ok, db] of running the closure on it; COMMIT when the closure
\* returned, ROLLBACK and re-raise when it raised
in_transaction(pre, body) ==
    IF body.ok THEN [ok |-> TRUE, db |-> body.db]
    ELSE [ok |-> FALSE, db |-> pre]

\* a connection whose statements are committed one by one
AutocommitView(committed, work) == work

\* what other connections read while a transaction opened with BEGIN
\* IMMEDIATE has written `work` and not committed: the store as committed
UncommittedView(committed, work) == committed

(***************************************************************************)
(* search/keyword.py and search/diff.py                                    *)
(***************************************************************************)
RECURSIVE EntityTokens(_)
EntityTokens(entities) ==
    IF entities = <<>> THEN {}
    ELSE tokenize(Head(entities)) \cup EntityTokens(Tail(entities))

\* tokens of content and entities (no tags are given in the runs explored)
insight_tokens(row) == tokenize(row.content) \cup EntityTokens(row.entities)

\* number of query tokens found in the insight; the score is this over
\* the number of query tokens
KeywordScore(row, query_tokens) ==
    Cardinality(query_tokens \cap insight_tokens(row))

\* keyword_search with a limit that the matches do not exceed: the ids of
\* the insights scored, those with a non-zero intersection
keyword_search(d, ids, query, limit) ==
    IF tokenize(query) = {} THEN {}
    ELSE {id \in ids : KeywordScore(d.insights[id], tokenize(query)) > 0}

\* the results come ordered by (score, importance, id) descending; ids are
\* random uuids, so any hit with the greatest (score, importance) can be
\* first
KeywordFirsts(d, ids, query) ==
    LET hits == keyword_search(d, ids, query, DIFF_LIMIT)
        sc(id) == KeywordScore(d.insights[id], tokenize(query))
        imp(id) == d.insights[id].importance
    IN {f \in hits : \A h \in hits :
           sc(f) > sc(h) \/ (sc(f) = sc(h) /\ imp(f) >= imp(h))}

\* content_similarity as the fraction <<intersection, min(|a|, |b|)>>
content_similarity(a, b) ==
    IF tokenize(a) = {} \/ tokenize(b) = {} THEN <<0, 1>>
    ELSE <<Cardinality(tokenize(a) \cap tokenize(b)),
           Min(Cardinality(tokenize(a)), Cardinality(tokenize(b)))>>

\* diff's similarity of the new content to an existing insight is the
\* token similarity, or the cosine when the cosine is at least 0.7 and
\* greater.  Compared with the two thresholds of classify_suggestion:
\*   similarity < 0.5  iff  token < 0.5 and not cosine >= 0.7
\*   similarity > 0.9  iff  token > 0.9 or cosine > 0.9
\* (new_vec or exist_vec is NULL when there is no embedding: cosine 0)
SimilarityBelowHalf(new_content, new_vec, content, exist_vec) ==
    /\ 2 * content_similarity(new_content, content)[1]
           < content_similarity(new_content, content)[2]
    /\ ~(new_vec /= NULL /\ exist_vec /= NULL
            /\ CosGE(new_vec, exist_vec, 7, 10))

SimilarityAboveNineTenths(new_content, new_vec, content, exist_vec) ==
    \/ 10 * content_similarity(new_content, content)[1]
           > 9 * content_similarity(new_content, content)[2]
    \/ (new_vec /= NULL /\ exist_vec /= NULL
            /\ CosGT(new_vec, exist_vec, 9, 10))

classify_suggestion(below_half, above_nine_tenths, new_text, existing_text) ==
    IF below_half THEN "ADD"
    ELSE IF has_negation(new_text) \/ has_negation(existing_text)
         THEN "CONFLICT"
         ELSE IF above_nine_tenths THEN "DUPLICATE" ELSE "UPDATE"

\* diff over the active insights `ids` of d, with the new content's vector
\* (or NULL) and the embedding cache (NULL: no existing_embed).  The set
\* of possible results [suggestion, first] where first is
\* matches[0]['id'], or NoId when there is no match.
diff(d, ids, new_content, new_embedding, embed_cache) ==
    LET existing == IF embed_cache = NULL THEN {} ELSE embed_cache[1]
        vec(id) == IF id \in existing THEN d.insights[id].embedding ELSE NULL
        sugg(id) == classify_suggestion(
                        SimilarityBelowHalf(new_content, new_embedding,
                            d.insights[id].content, vec(id)),
                        SimilarityAboveNineTenths(new_content, new_embedding,
                            d.insights[id].content, vec(id)),
                        new_content, d.insights[id].content)
        candidates == keyword_search(d, ids, new_content, DIFF_LIMIT)
        cosine_pairs ==
            IF new_embedding = NULL THEN {}
            ELSE {eid \in existing \ candidates :
                     /\ CosGE(new_embedding, vec(eid), 7, 10)
                     /\ eid \in ids
                     /\ sugg(eid) /= "ADD"}
        cs(eid) == cosine_similarity(new_embedding, vec(eid))
        matches == candidates \cup cosine_pairs
        firsts == IF candidates /= {}
                  THEN KeywordFirsts(d, ids, new_content)
                  ELSE {f \in cosine_pairs :
                           \A o \in cosine_pairs : ~CosLess(cs(f), cs(o))}
    IN IF matches = {} THEN {[suggestion |-> "ADD", first |-> NoId]}
       ELSE {[suggestion |->
                 IF \E m \in matches : sugg(m) = "DUPLICATE"
                 THEN "DUPLICATE" ELSE sugg(f),
              first |-> f] : f \in firsts}

(***************************************************************************)
(* The edge generators: graph/temporal.py, graph/entity.py,                *)
(* graph/causal.py, graph/semantic.py, graph/engine.py.  Each insert_edge  *)
(* of a generator is wrapped in its own try/except.                        *)
(***************************************************************************)
Edge(source_id, target_id, edge_type, weight, metadata, created_at) ==
    [source_id |-> source_id, target_id |-> target_id,
     edge_type |-> edge_type, weight |-> weight, metadata |-> metadata,
     created_at |-> created_at]

\* ids in descending order of created_at
ByCreatedDesc(d, S) == SortDesc(S, [x \in S |-> d.insights[x].created_at])

get_latest_insight_by_source(d, source, exclude_id) ==
    LET S == {id \in ActiveIds(d) :
                 d.insights[id].source = source /\ id /= exclude_id}
    IN IF S = {} THEN NoId ELSE Head(ByCreatedDesc(d, S))

get_recent_insights_in_window(d, exclude_id, window_hours, limit, now) ==
    Take(ByCreatedDesc(d, {id \in ActiveIds(d) :
                              /\ id /= exclude_id
                              /\ d.insights[id].created_at
                                     >= now - window_hours}),
         limit)

get_recent_active_insights(d, exclude_id, limit) ==
    Take(ByCreatedDesc(d, ActiveIds(d) \ {exclude_id}), limit)

find_insights_with_entity(d, entity, exclude_id, limit) ==
    Take(ByCreatedDesc(d, {id \in ActiveIds(d) :
                              /\ id /= exclude_id
                              /\ entity \in Range(d.insights[id].entities)}),
         limit)

count_insights_with_entity(d, entity, exclude_id) ==
    Cardinality({id \in ActiveIds(d) :
                    /\ id /= exclude_id
                    /\ entity \in Range(d.insights[id].entities)})

\* insert_edge inside the try/except of a generator, the generator being
\* at acc = [db, count]: the statement raises for the keys of `failing`,
\* and when an endpoint has no row; the exception is dropped and count
\* stays, otherwise the row is written and count goes up by one
TryInsertEdge(acc, e, failing) ==
    IF EdgeKey(e) \in failing
           \/ ~({e.source_id, e.target_id} \subseteq RowIds(acc.db))
    THEN acc
    ELSE [db |-> insert_edge(acc.db, e), count |-> acc.count + 1]

RECURSIVE ProximityEdges(_, _, _, _, _, _)
\* the loop of create_temporal_edge over `recent`
ProximityEdges(acc, insight, recent, backbone_id, now, failing) ==
    IF recent = <<>> THEN acc
    ELSE LET near == Head(recent)
             hours_diff == Abs(insight.created_at
                                   - acc.db.insights[near].created_at)
             weight == <<1, 1 + hours_diff>>
             meta == [sub_type |-> "proximity", hours_diff |-> hours_diff]
         IN IF near = backbone_id
            THEN ProximityEdges(acc, insight, Tail(recent), backbone_id, now,
                                failing)
            ELSE ProximityEdges(
                     TryInsertEdge(
                         TryInsertEdge(acc,
                             Edge(insight.id, near, "temporal", weight, meta,
                                  now),
                             failing),
                         Edge(near, insight.id, "temporal", weight, meta,
                              now),
                         failing),
                     insight, Tail(recent), backbone_id, now, failing)

\* the result is [db, count], as for the other generators
create_temporal_edge(d, insight, now, failing) ==
    LET prev == get_latest_insight_by_source(d, insight.source, insight.id)
        start == [db |-> d, count |-> 0]
        acc1 == IF prev = NoId THEN start
                ELSE TryInsertEdge(
                         TryInsertEdge(start,
                             Edge(prev, insight.id, "temporal", <<1, 1>>,
                                  [sub_type |-> "backbone",
                                   direction |-> "precedes"],
                                  now),
                             failing),
                         Edge(insight.id, prev, "temporal", <<1, 1>>,
                              [sub_type |-> "backbone",
                               direction |-> "succeeds"],
                              now),
                         failing)
    IN ProximityEdges(acc1, insight,
           get_recent_insights_in_window(d, insight.id,
               TEMPORAL_WINDOW_HOURS, MAX_PROXIMITY_EDGES, now),
           prev, now, failing)

\* ln(n) in thousandths, for the store sizes where IDF weights are used
Ln1000(n) ==
    CASE n <= 1 -> 0
      [] n = 2 -> 693
      [] n = 3 -> 1099
      [] n = 4 -> 1386
      [] n = 5 -> 1609
      [] n = 6 -> 1792
      [] n = 7 -> 1946
      [] OTHER -> 2079

\* entity_idf_weight as a fraction in thousandths
entity_idf_weight(doc_freq, total_docs) ==
    IF total_docs <= 1 \/ doc_freq >= total_docs THEN <<0, 1>>
    ELSE IF doc_freq <= 0 THEN <<1, 1>>
    ELSE <<Max(((Ln1000(total_docs) - Ln1000(doc_freq)) * 1000)
                   \div Ln1000(total_docs), 100), 1000>>

RECURSIVE EntityTargetEdges(_, _, _, _, _, _, _)
\* the inner loop of create_entity_edges over the ids of one entity
EntityTargetEdges(acc, insight, entity, ids, weight, now, failing) ==
    IF ids = <<>> \/ acc.count >= MAX_TOTAL_ENTITY_EDGES THEN acc
    ELSE EntityTargetEdges(
             TryInsertEdge(
                 TryInsertEdge(acc,
                     Edge(insight.id, Head(ids), "entity", weight,
                          [entity |-> entity], now),
                     failing),
                 Edge(Head(ids), insight.id, "entity", weight,
                      [entity |-> entity], now),
                 failing),
             insight, entity, Tail(ids), weight, now, failing)

RECURSIVE EntityLoop(_, _, _, _, _, _)
\* the outer loop of create_entity_edges over insight.entities
EntityLoop(acc, insight, entities, total_docs, now, failing) ==
    IF entities = <<>> \/ acc.count >= MAX_TOTAL_ENTITY_EDGES THEN acc
    ELSE LET entity == Head(entities)
             ids == find_insights_with_entity(acc.db, entity, insight.id,
                                              MAX_ENTITY_LINKS)
             weight == IF total_docs > 5
                       THEN entity_idf_weight(
                                count_insights_with_entity(
                                    acc.db, entity, insight.id) + 1,
                                total_docs)
                       ELSE <<1, 1>>
         IN IF ids = <<>> \/ weight[1] = 0
            THEN EntityLoop(acc, insight, Tail(entities), total_docs, now,
                            failing)
            ELSE EntityLoop(
                     EntityTargetEdges(acc, insight, entity, ids, weight, now,
                                       failing),
                     insight, Tail(entities), total_docs, now, failing)

create_entity_edges(d, insight, now, failing) ==
    IF insight.entities = <<>> THEN [db |-> d, count |-> 0]
    ELSE EntityLoop([db |-> d, count |-> 0], insight, insight.entities,
                    count_active_insights(d), now, failing)

\* the overlap divided by the size of the smaller set
token_overlap_of_smaller(a, b) ==
    IF a = {} \/ b = {} THEN <<0, 1>>
    ELSE <<Cardinality(a \cap b), Min(Cardinality(a), Cardinality(b))>>

\* token_overlap as the fraction <<intersection, max(|a|, |b|)>>
token_overlap(a, b) ==
    IF a = {} \/ b = {} THEN <<0, 1>>
    ELSE <<Cardinality(a \cap b), Max(Cardinality(a), Cardinality(b))>>

RECURSIVE CausalLoop(_, _, _, _, _)
\* the loop of create_causal_edges over `recent`; MIN_CAUSAL_OVERLAP is
\* 0.15
CausalLoop(acc, insight, recent, now, failing) ==
    IF recent = <<>> THEN acc
    ELSE LET prev == Head(recent)
             prev_content == acc.db.insights[prev].content
             new_has_signal == has_causal_signal(insight.content)
             prev_has_signal == has_causal_signal(prev_content)
             overlap == token_overlap(tokenize(insight.content),
                                      tokenize(prev_content))
             reversed == ~new_has_signal /\ prev_has_signal
         IN IF (~new_has_signal /\ ~prev_has_signal)
                   \/ overlap[1] * 100 < 15 * overlap[2]
            THEN CausalLoop(acc, insight, Tail(recent), now, failing)
            ELSE CausalLoop(
                     TryInsertEdge(acc,
                         Edge(IF reversed THEN insight.id ELSE prev,
                              IF reversed THEN prev ELSE insight.id,
                              "causal", overlap,
                              [overlap |-> overlap,
                               sub_type |-> suggest_sub_type(
                                   insight.content, prev_content)],
                              now),
                         failing),
                     insight, Tail(recent), now, failing)

create_causal_edges(d, insight, now, failing) ==
    IF tokenize(insight.content) = {} THEN [db |-> d, count |-> 0]
    ELSE CausalLoop([db |-> d, count |-> 0], insight,
             get_recent_active_insights(d, insight.id, CAUSAL_LOOKBACK), now,
             failing)

\* the ids of the active insights that have an embedding
get_all_embeddings(d) ==
    {id \in ActiveIds(d) : d.insights[id].embedding /= NULL}

\* an embedding cache is <<the set of the ids it holds>>, or NULL; the
\* vector it holds for an id is the one stored in the row (a vector, once
\* stored, is never changed)
build_embed_cache(d) ==
    IF get_all_embeddings(d) = {} THEN NULL ELSE <<get_all_embeddings(d)>>

RECURSIVE SemanticLoop(_, _, _, _, _)
\* the loop of create_semantic_edges over the ids selected
SemanticLoop(acc, insight, scored, now, failing) ==
    IF scored = {} THEN acc
    ELSE LET eid == CHOOSE x \in scored : TRUE
             sim == cosine_similarity(acc.db.insights[insight.id].embedding,
                                      acc.db.insights[eid].embedding)
             meta == [created_by |-> "auto", cosine |-> sim]
         IN SemanticLoop(
                TryInsertEdge(
                    TryInsertEdge(acc,
                        Edge(insight.id, eid, "semantic", sim, meta, now),
                        failing),
                    Edge(eid, insight.id, "semantic", sim, meta, now),
                    failing),
                insight, scored \ {eid}, now, failing)

\* AUTO_SEMANTIC_THRESHOLD is 0.80; of the ids at or over it the
\* MAX_AUTO_SEMANTIC_EDGES with the greatest cosine are linked
create_semantic_edges(d, insight, embed_cache, now, failing) ==
    LET cache == IF embed_cache = NULL THEN build_embed_cache(d)
                 ELSE embed_cache
        vec(id) == d.insights[id].embedding
        over == IF cache = NULL \/ insight.id \notin RowIds(d) THEN {}
                ELSE IF insight.id \notin cache[1] THEN {}
                ELSE {eid \in cache[1] \ {insight.id} :
                         CosGE(vec(insight.id), vec(eid), 4, 5)}
        n == Min(Cardinality(over), MAX_AUTO_SEMANTIC_EDGES)
        scored == CHOOSE T \in SUBSET over :
                      /\ Cardinality(T) = n
                      /\ \A t \in T : \A o \in over \ T :
                             ~CosLess(
                                 cosine_similarity(vec(insight.id), vec(t)),
                                 cosine_similarity(vec(insight.id), vec(o)))
    IN SemanticLoop([db |-> d, count |-> 0], insight, scored, now, failing)

\* merge_entities: provided first, then the extracted ones not yet seen
RECURSIVE merge_entities(_, _)
merge_entities(provided, extracted) ==
    IF extracted = <<>> THEN provided
    ELSE merge_entities(
             IF Head(extracted) \in Range(provided) THEN provided
             ELSE Append(provided, Head(extracted)),
             Tail(extracted))

\* on_insight_created: the result is [db, entities, stats], entities
\* being the merged list left in insight.entities and stats the count each
\* generator returned
on_insight_created(d, insight, embed_cache, now, failing) ==
    LET merged == merge_entities(insight.entities,
                                 extract_entities(insight.content))
        ins == [insight EXCEPT !.entities = merged]
        temporal == create_temporal_edge(d, ins, now, failing)
        entity == create_entity_edges(temporal.db, ins, now, failing)
        causal == create_causal_edges(entity.db, ins, now, failing)
        semantic == create_semantic_edges(causal.db, ins, embed_cache, now,
                                          failing)
    IN [db |-> semantic.db,
        entities |-> merged,
        stats |-> [temporal |-> temporal.count, entity |-> entity.count,
                   causal |-> causal.count, semantic |-> semantic.count]]

(***************************************************************************)
(* Read paths: store/node.py query_insights, graph/bfs.py,                 *)
(* search/recall.py.  Results are sets of ids: the limits are the          *)
(* defaults, which the stores explored never reach, so no result is cut.   *)
(***************************************************************************)
\* deleted_at IS NULL AND content LIKE %keyword%
query_insights(d, keyword) ==
    {id \in RowIds(d) :
        d.insights[id].deleted_at = NULL /\ Like(d.insights[id].content, keyword)}

\* the other endpoints of the edges at the nodes of `frontier`
Neighbors(d, frontier, edge_filter) ==
    {e.target_id : e \in {x \in d.edges :
                             /\ x.source_id \in frontier
                             /\ edge_filter \in {"", x.edge_type}}}
    \cup
    {e.source_id : e \in {x \in d.edges :
                             /\ x.target_id \in frontier
                             /\ edge_filter \in {"", x.edge_type}}}

RECURSIVE BfsLevels(_, _, _, _, _, _, _)
\* the queue loop of bfs, one hop at a time: a neighbour not yet visited
\* is marked visited; one that is not in insight_map is skipped, the
\* others are reported and queued
BfsLevels(d, insight_map, frontier, visited, hop, max_depth, edge_filter) ==
    IF frontier = {} \/ hop >= max_depth THEN {}
    ELSE LET fresh == Neighbors(d, frontier, edge_filter) \ visited
             found == fresh \cap insight_map
         IN {[id |-> n, hop |-> hop + 1] : n \in found}
            \cup BfsLevels(d, insight_map, found, visited \cup fresh,
                           hop + 1, max_depth, edge_filter)

\* bfs: the set of [id, hop] reported
bfs(d, start_id, max_depth, edge_filter) ==
    IF get_all_active_insights(d) = {} THEN {}
    ELSE BfsLevels(d, get_all_active_insights(d), {start_id}, {start_id},
                   0, max_depth, edge_filter)

RECURSIVE BeamReach(_, _, _, _)
\* beam_search_from_anchor: the ids that get a score, those reached from
\* the anchor over at most max_depth edges (every neighbour is pushed,
\* whether it has an insight or not; beam_width and max_visited exceed
\* the stores explored)
BeamReach(d, frontier, visited, depth) ==
    IF frontier = {} \/ depth = 0 THEN visited
    ELSE BeamReach(d, Neighbors(d, frontier, "") \ visited,
                   visited \cup Neighbors(d, frontier, ""), depth - 1)

\* intent_aware_recall: the ids of the results.  Anchors are the keyword
\* hits, the vector hits (cosine over VECTOR_SEARCH_MIN_SIM = 0.10) and
\* the ANCHOR_TOP_K most recent active insights; a node reached by the
\* beam search is a candidate when get_insight_by_id finds it.
intent_aware_recall(d, query, query_vec, limit) ==
    LET all_insights == get_all_active_insights(d)
        embed_cache == IF query_vec = NULL THEN NULL
                       ELSE build_embed_cache(d)
        keyword_anchors == keyword_search(d, all_insights, query, 20)
        vector_hits ==
            IF embed_cache = NULL THEN {}
            ELSE {vid \in embed_cache[1] :
                     /\ CosGT(query_vec, d.insights[vid].embedding, 1, 10)
                     /\ (vid \in keyword_anchors
                            \/ get_insight_by_id(d, vid) /= NULL)}
        anchors == keyword_anchors \cup vector_hits \cup all_insights
        scored == UNION {BeamReach(d, {a}, {a}, RECALL_MAX_DEPTH) :
                            a \in anchors}
    IN anchors \cup {n \in scored : get_insight_by_id(d, n) /= NULL}

(***************************************************************************)
(* State.                                                                  *)
(*   db      the store as committed: what every connection reads           *)
(*   tx      NULL, or <<[owner, pre, work]>>: the write transaction open   *)
(*           on the store (BEGIN IMMEDIATE takes the write lock), the      *)
(*           store as it was at BEGIN, and the store as the owner sees it  *)
(*   procs   the `remember` invocations that are running, each its own     *)
(*           process, as a function from the id the invocation drew        *)
(*   clock   the time, in hours: it advances with each `remember` issued   *)
(*   outcome what the last `remember` that ended reported                  *)
(*   applied the last call issued on its own with its arguments: an       *)
(*           insert_edge with the store it was applied to, or a command   *)
(*           with the error it reported                                    *)
(*   stores  the names of the stores that exist under the data directory   *)
(*   active_file  the file `active` of the data directory: NULL while it   *)
(*           does not exist, else <<its text>>                             *)
(*   handle, recalled, beam, called  the parts followed statement by       *)
(*           statement: a DB handle, the results a recall sorts, the beam  *)
(*           traversal, and a function called on its own                   *)
(***************************************************************************)
VARIABLES db, tx, procs, clock, outcome, applied, stores, handle, recalled,
          beam, called, active_file

vars ==
    <<db, tx, procs, clock, outcome, applied, stores, handle, recalled, beam,
      called, active_file>>

\* the state of the parts that are followed statement by statement on
\* their own, which the commands above them leave alone
elsewhere == <<handle, recalled, beam, called, active_file>>

\* DB.__init__ on a fresh connection, store/db.py:72-76: the flag _in_tx
\* and the connection (in autocommit, nothing written), with the calls of
\* in_transaction that are running (the innermost last), the results of
\* those that have ended, and the rows written
\* the reranked and truncated results of a recall for the intent WHY, and
\* the list causal_topological_sort made of them, once it has
NothingRecalled == [results |-> <<>>, sorted |-> NULL]

\* the traversal of a recall: score_map and via_map, the anchors whose
\* pass is still to run, and the pass that is running, if any
NoTraversal ==
    [score_map |-> <<>>, via_map |-> <<>>, anchors |-> <<>>, pass |-> NULL]

\* a function of the program called on its own: its name, its arguments
\* and, once it has returned, <<its result>>
NoCall == [fn |-> "none", args |-> NULL, result |-> NULL]

NewHandle ==
    [in_tx |-> FALSE, conn |-> "autocommit", frames |-> <<>>,
     returned |-> <<>>, pending |-> 0, committed |-> 0]

\* the function f without the argument k
Without(f, k) == [x \in DOMAIN f \ {k} |-> f[x]]

NoOutcome == [id |-> NoId, action |-> "none", raised |-> {}, pruned |-> 0]

\* the Insight object built by `remember` (cli.py:144): no tags, no
\* entities given, category general, source user
Insight(proc) ==
    [id |-> proc.id, content |-> proc.content, category |-> "general",
     importance |-> proc.importance, source |-> "user", entities |-> <<>>,
     access_count |-> 0, created_at |-> proc.id]

\* the `remember` invocations explored: content, --imp, --no-diff, and
\* whether the embedding service answers
Requests ==
    {[content |-> "T4", importance |-> 4, no_diff |-> FALSE,
      available |-> TRUE],
     [content |-> "T3", importance |-> 2, no_diff |-> FALSE,
      available |-> TRUE],
     [content |-> "T3", importance |-> 4, no_diff |-> TRUE,
      available |-> TRUE],
     [content |-> "T2", importance |-> 2, no_diff |-> TRUE,
      available |-> FALSE]}

Init ==
    /\ db = EmptyDb
    /\ tx = NULL
    /\ procs = <<>>
    /\ clock = 0
    /\ outcome = NoOutcome
    /\ applied = NULL
    /\ stores = {DEFAULT_STORE_NAME}
    /\ active_file = NULL
    /\ handle = NewHandle
    /\ recalled = NothingRecalled
    /\ beam = NoTraversal
    /\ called = NoCall

(***************************************************************************)
(* remember, cli.py:97-324.                                                *)
(***************************************************************************)
\* Up to the transaction: the validated arguments, a fresh id, open_db,
\* the embedding of the content and the embedding cache when the service
\* is available, and the diff against the active insights.
RememberPrepareBody(content, importance, no_diff, available) ==
    /\ Cardinality(DOMAIN procs) < MaxProcs
    /\ clock < MaxIds
    /\ LET d == migrate(db, clock + 1)
           embedding_vec == IF available THEN embed(content) ELSE NULL
           embed_cache == IF available THEN build_embed_cache(d) ELSE NULL
       IN \E r \in (IF no_diff THEN {[suggestion |-> "ADD", first |-> NoId]}
                     ELSE diff(d, get_all_active_insights(d), content,
                               embedding_vec, embed_cache)) :
              /\ procs' = [p \in DOMAIN procs \cup {clock + 1} |->
                     IF p \in DOMAIN procs THEN procs[p] ELSE
                     [pc |-> "prepared", id |-> clock + 1,
                      content |-> content, importance |-> importance,
                      embedding_vec |-> embedding_vec,
                      embed_cache |-> embed_cache,
                      diff_action |->
                          CASE r.suggestion = "DUPLICATE" -> "skipped"
                            [] r.suggestion \in {"CONFLICT", "UPDATE"}
                                   -> "updated"
                            [] OTHER -> "added",
                      replaced_id |->
                          IF r.suggestion = "ADD" THEN NoId ELSE r.first,
                      raised |-> {}]]
              /\ db' = d
    /\ clock' = clock + 1
    /\ UNCHANGED <<tx, outcome, stores, elsewhere>>

RememberPrepare(content, importance, no_diff, available) ==
    /\ RememberPrepareBody(content, importance, no_diff, available)
    /\ UNCHANGED applied

\* the checks `remember` makes before it opens the store, cli.py:101-141,
\* in their order: the error raised, or "" when there is none.  (The
\* length of the single tags and entities is not modelled.)
remember_validate(content_bytes, cat, imp, n_tags, n_entities) ==
    IF content_bytes > 8000 THEN "content too long"
    ELSE IF cat \notin VALID_CATEGORIES THEN "invalid category"
    ELSE IF imp < 1 \/ imp > 5 THEN "importance must be 1-5"
    ELSE IF n_tags > 20 THEN "too many tags"
    ELSE IF n_entities > 50 THEN "too many entities"
    ELSE ""

\* len(content_str.encode('utf-8')); LONG stands for a text of 8001 bytes
ContentBytes(content) ==
    CASE content = "T1" -> 36
      [] content = "T2" -> 33
      [] content = "T3" -> 26
      [] content = "T4" -> 21
      [] content = "T5" -> 24
      [] content = "LONG" -> 8001

\* the `remember` commands issued with their options checked: valid ones
\* (category general, no tags, no entities given) and one for each check
RememberCommands ==
    LET ok == [content |-> "T4", category |-> "general", importance |-> 4,
               n_tags |-> 0, n_entities |-> 0, no_diff |-> FALSE,
               available |-> TRUE]
    IN {ok,
        [ok EXCEPT !.content = "T2", !.importance = 2, !.no_diff = TRUE,
                   !.available = FALSE],
        [ok EXCEPT !.content = "LONG"],
        [ok EXCEPT !.category = "bogus"],
        [ok EXCEPT !.category = "narrative"],
        [ok EXCEPT !.importance = 0],
        [ok EXCEPT !.importance = 6],
        [ok EXCEPT !.n_tags = 21],
        [ok EXCEPT !.n_entities = 51]}

\* remember, from the command line: the checks, then _remember_impl
RememberCommand(c) ==
    LET error == remember_validate(ContentBytes(c.content), c.category,
                                   c.importance, c.n_tags, c.n_entities)
    IN /\ applied' = <<[command |-> "remember", args |-> c,
                        error |-> error]>>
       /\ IF error /= ""
          THEN UNCHANGED <<db, tx, procs, clock, outcome, stores, elsewhere>>
          ELSE RememberPrepareBody(c.content, c.importance, c.no_diff,
                                   c.available)

\* a skip that soft-deletes the insight the new content duplicates
RememberSkipReplacing(p) ==
    /\ p \in DOMAIN procs
    /\ procs[p].pc = "prepared"
    /\ procs[p].diff_action = "skipped"
    /\ tx = NULL
    /\ db' = log_op(soft_delete_insight(db, procs[p].replaced_id, clock).db,
                    "diff-skip", procs[p].id)
    /\ outcome' = [id |-> procs[p].id, action |-> "skipped",
                   raised |-> {}, pruned |-> 0]
    /\ procs' = Without(procs, p)
    /\ UNCHANGED <<tx, clock, applied, stores, elsewhere>>

\* diff_action = 'skipped': the oplog row, and nothing else
RememberSkip(p) ==
    /\ p \in DOMAIN procs
    /\ procs[p].pc = "prepared"
    /\ procs[p].diff_action = "skipped"
    /\ tx = NULL
    /\ db' = log_op(db, "diff-skip", procs[p].id)
    /\ outcome' = [id |-> procs[p].id, action |-> "skipped",
                   raised |-> {}, pruned |-> 0]
    /\ procs' = Without(procs, p)
    /\ UNCHANGED <<tx, clock, applied, stores, elsewhere>>

\* a closure in which no call is wrapped in a try/except
CaughtNowhere(call) == FALSE

\* the calls of tx_body that sit in a try/except of their own, which
\* swallows what they raise: cli.py:249-258, 273-276, 278-281
CaughtInTxBody(call) ==
    call \in {"soft_delete_insight", "refresh_effective_importance",
              "auto_prune"}

\* tx_body up to the edge generators, on the store d: the soft-delete of
\* the replaced insight, insert_insight, update_embedding.  `fault` names
\* a call made to raise.  The result is [ok, db, embed_cache, raised], ok
\* telling whether the closure is still running.
TxBodyInsert(d, proc, fault, now) ==
    LET replacing == proc.diff_action = "updated" /\ proc.replaced_id /= NoId
        sd == soft_delete_insight(d, proc.replaced_id, now)
        d1 == IF replacing /\ sd.ok
              THEN log_op(sd.db, "diff-replace", proc.replaced_id)
              ELSE d
        cache1 == IF replacing /\ sd.ok /\ proc.embed_cache /= NULL
                  THEN <<proc.embed_cache[1] \ {proc.replaced_id}>>
                  ELSE proc.embed_cache
        raised1 == IF replacing /\ ~sd.ok THEN {"soft_delete_insight"}
                   ELSE {}
        ins == insert_insight(d1, Insight(proc))
    IN IF \E call \in raised1 : ~CaughtInTxBody(call)
       THEN [ok |-> FALSE, db |-> d1, embed_cache |-> cache1,
             raised |-> raised1]
       ELSE IF fault = "insert_insight" \/ ~ins.ok
       THEN [ok |-> FALSE, db |-> d1, embed_cache |-> cache1,
             raised |-> raised1 \cup {"insert_insight"}]
       ELSE [ok |-> TRUE,
             db |-> IF proc.embedding_vec /= NULL
                    THEN update_embedding(ins.db, proc.id, proc.embedding_vec)
                    ELSE ins.db,
             embed_cache |->
                 IF proc.embedding_vec /= NULL /\ cache1 /= NULL
                 THEN <<cache1[1] \cup {proc.id}>> ELSE cache1,
             raised |-> raised1]

\* tx_body from the edge generators on, on the store d: on_insight_created
\* (its insert_edge raising for the keys of `failing`), update_entities,
\* refresh_effective_importance, auto_prune, log_op.
\* The set of possible results [ok, db, raised, pruned], ok telling
\* whether the closure returned.
TxBodyFinish(d, proc, embed_cache, fault, now, failing) ==
    LET created == on_insight_created(d, Insight(proc), embed_cache, now,
                                      failing)
        d1 == IF created.entities /= <<>>
              THEN update_entities(created.db, proc.id, created.entities)
              ELSE created.db
        refreshed == refresh_effective_importance(d1, proc.id)
        raised == (IF fault \in {"update_entities", "auto_prune"}
                   THEN {fault} ELSE {})
                  \cup (IF refreshed.ok THEN {}
                        ELSE {"refresh_effective_importance"})
        pruned == IF fault = "auto_prune"
                  THEN {[pruned |-> 0, db |-> refreshed.db]}
                  ELSE auto_prune(refreshed.db, MAX_INSIGHTS, {proc.id}, now)
    IN IF fault = "update_entities"
       THEN {[ok |-> FALSE, db |-> created.db, raised |-> raised,
              pruned |-> 0]}
       ELSE IF \E call \in raised : ~CaughtInTxBody(call)
       THEN {[ok |-> FALSE, db |-> refreshed.db, raised |-> raised,
              pruned |-> 0]}
       ELSE {[ok |-> TRUE, db |-> log_op(r.db, "remember", proc.id),
              raised |-> raised, pruned |-> r.pruned] : r \in pruned}

\* a BEGIN that does not wait for the write lock
RememberBeginUnlocked(p, fault) ==
    /\ p \in DOMAIN procs
    /\ procs[p].pc = "prepared"
    /\ procs[p].diff_action /= "skipped"
    /\ LET body == TxBodyInsert(db, procs[p], fault, clock)
       IN IF body.ok
          THEN /\ tx' = <<[owner |-> p, pre |-> db, work |-> body.db]>>
               /\ db' = UncommittedView(db, body.db)
               /\ procs' = [procs EXCEPT ![p].pc = "in_tx",
                                         ![p].embed_cache = body.embed_cache,
                                         ![p].raised = body.raised]
               /\ UNCHANGED outcome
          ELSE LET result == in_transaction(db, [ok |-> FALSE,
                                                  db |-> body.db])
               IN /\ tx' = NULL
                  /\ db' = result.db
                  /\ procs' = Without(procs, p)
                  /\ outcome' = [id |-> procs[p].id,
                                 action |-> IF result.ok
                                            THEN procs[p].diff_action
                                            ELSE "error",
                                 raised |-> body.raised, pruned |-> 0]
    /\ UNCHANGED <<clock, applied, stores, elsewhere>>

\* db.in_transaction(tx_body), first part: BEGIN IMMEDIATE waits for the
\* write lock; the closure runs up to the edge generators.  When
\* insert_insight raises, the transaction ends here.
RememberBegin(p, fault) ==
    /\ p \in DOMAIN procs
    /\ procs[p].pc = "prepared"
    /\ procs[p].diff_action /= "skipped"
    /\ tx = NULL
    /\ LET body == TxBodyInsert(db, procs[p], fault, clock)
       IN IF body.ok
          THEN /\ tx' = <<[owner |-> p, pre |-> db, work |-> body.db]>>
               /\ db' = UncommittedView(db, body.db)
               /\ procs' = [procs EXCEPT ![p].pc = "in_tx",
                                         ![p].embed_cache = body.embed_cache,
                                         ![p].raised = body.raised]
               /\ UNCHANGED outcome
          ELSE LET result == in_transaction(db, [ok |-> FALSE,
                                                  db |-> body.db])
               IN /\ tx' = NULL
                  /\ db' = result.db
                  /\ procs' = Without(procs, p)
                  /\ outcome' = [id |-> procs[p].id,
                                 action |-> IF result.ok
                                            THEN procs[p].diff_action
                                            ELSE "error",
                                 raised |-> body.raised, pruned |-> 0]
    /\ UNCHANGED <<clock, applied, stores, elsewhere>>

\* db.in_transaction(tx_body), second part: the rest of the closure, then
\* COMMIT, or ROLLBACK when the closure raised
RememberFinishWith(p, fault, failing) ==
    /\ p \in DOMAIN procs
    /\ procs[p].pc = "in_tx"
    /\ tx /= NULL
    /\ tx[1].owner = p
    /\ \E body \in TxBodyFinish(tx[1].work, procs[p], procs[p].embed_cache,
                                 fault, clock, failing) :
          LET result == in_transaction(tx[1].pre,
                                       [ok |-> body.ok, db |-> body.db])
          IN
          /\ db' = result.db
          /\ outcome' = [id |-> procs[p].id,
                         action |-> IF result.ok THEN procs[p].diff_action
                                    ELSE "error",
                         raised |-> procs[p].raised \cup body.raised,
                         pruned |-> body.pruned]
    /\ tx' = NULL
    /\ procs' = Without(procs, p)
    /\ UNCHANGED <<clock, stores, elsewhere>>

\* with every insert_edge of the generators succeeding
RememberFinish(p, fault) ==
    /\ RememberFinishWith(p, fault, {})
    /\ UNCHANGED applied

\* with the insert_edge of the generators raising for the keys of
\* `failing`, and edge_stats (cli.py:268) recorded with the edges the
\* store held before and after on_insight_created
RememberFinishEdges(p, failing) ==
    /\ RememberFinishWith(p, "none", failing)
    /\ LET created == on_insight_created(tx[1].work, Insight(procs[p]),
                           procs[p].embed_cache, clock, failing)
       IN applied' = <<[command |-> "on_insight_created",
                        id |-> procs[p].id, failing |-> failing,
                        edge_stats |-> created.stats,
                        before |-> tx[1].work.edges,
                        after |-> created.db.edges]>>

(***************************************************************************)
(* The other commands, cli.py.  Each is one connection issuing its         *)
(* statements in autocommit mode; a write waits while another connection   *)
(* holds the write lock.                                                   *)
(***************************************************************************)
RECURSIVE IncrementAll(_, _)
IncrementAll(d, ids) ==
    IF ids = {} THEN d
    ELSE LET id == CHOOSE x \in ids : TRUE
         IN IncrementAll(increment_access_count(d, id), ids \ {id})

\* forget: soft_delete_insight, log_op; a ValueError ends the command
Forget(id) ==
    /\ tx = NULL
    /\ LET r == soft_delete_insight(migrate(db, clock), id, clock)
       IN db' = IF r.ok THEN log_op(r.db, "forget", id) ELSE r.db
    /\ UNCHANGED <<tx, procs, clock, outcome, applied, stores, elsewhere>>

\* a float given on the command line is a fraction <<numerator,
\* denominator>> with a positive denominator, or <<0, 0>> for nan, which
\* float() accepts; every comparison with nan is false
IsNaN(x) == x[2] = 0

FloatLt(x, y) == ~IsNaN(x) /\ ~IsNaN(y) /\ x[1] * y[2] < y[1] * x[2]

\* the checks `link` makes before it opens the store, cli.py:476-482: the
\* error raised, or "" when there is none
link_validate(edge_type, weight) ==
    IF edge_type \notin VALID_EDGE_TYPES THEN "invalid edge type"
    ELSE IF FloatLt(weight, <<0, 1>>) \/ FloatLt(<<1, 1>>, weight)
    THEN "weight must be between 0.0 and 1.0"
    ELSE ""

\* link on the opened store d: both endpoints must be active; the edge is
\* written in both directions with the same metadata, whatever its type
\* (SQLite stores a nan as NULL, which the weight column allows)
link(d, source_id, target_id, edge_type, given, now) ==
    LET metadata == [created_by |-> "claude"]
        weight == IF IsNaN(given) THEN NULL ELSE given
    IN IF get_insight_by_id(d, source_id) = NULL
          \/ get_insight_by_id(d, target_id) = NULL
       THEN [error |-> "not found", db |-> d]
       ELSE [error |-> "",
             db |-> log_op(
                        insert_edge(
                            insert_edge(d,
                                Edge(source_id, target_id, edge_type,
                                     weight, metadata, now)),
                            Edge(target_id, source_id, edge_type, weight,
                                 metadata, now)),
                        "link", source_id)]

Link(source_id, target_id, edge_type, weight) ==
    /\ link_validate(edge_type, weight) = ""
    /\ tx = NULL
    /\ db' = link(migrate(db, clock), source_id, target_id, edge_type,
                  weight, clock).db
    /\ UNCHANGED <<tx, procs, clock, outcome, applied, stores, elsewhere>>

\* link, with the error it reports recorded
LinkCommand(source_id, target_id, edge_type, weight) ==
    LET invalid == link_validate(edge_type, weight)
        r == link(migrate(db, clock), source_id, target_id, edge_type,
                  weight, clock)
        args == [source_id |-> source_id, target_id |-> target_id,
                 edge_type |-> edge_type, weight |-> weight]
    IN IF invalid /= ""
       THEN /\ applied' = <<[command |-> "link", args |-> args,
                             error |-> invalid]>>
            /\ UNCHANGED <<db, tx, procs, clock, outcome, stores, elsewhere>>
       ELSE /\ tx = NULL
            /\ db' = r.db
            /\ applied' = <<[command |-> "link", args |-> args,
                             error |-> r.error]>>
            /\ UNCHANGED <<tx, procs, clock, outcome, stores, elsewhere>>

\* store create: the name is checked, then the store must not exist, then
\* open_db creates its directory and its database
StoreCreate(name) ==
    LET error == IF ~valid_store_name(name) THEN "invalid store name"
                 ELSE IF name \in stores THEN "already exists"
                 ELSE ""
    IN /\ applied' = <<[command |-> "store create", args |-> name,
                        error |-> error]>>
       /\ stores' = IF error = "" THEN stores \cup {name} ELSE stores
       /\ UNCHANGED <<db, tx, procs, clock, outcome, elsewhere>>

\* the components of a path, as the file system reads it: the parts
\* between the slashes
RECURSIVE SplitPath(_)
SplitPath(path) ==
    IF path = <<>> THEN << <<>> >>
    ELSE LET rest == SplitPath(Tail(path))
         IN IF Head(path) = "/" THEN << <<>> >> \o rest
            ELSE << <<Head(path)>> \o rest[1] >> \o Tail(rest)

\* an empty part and the part `.` name the directory they are met in
NamesAnEntry(part) == part /= <<>> /\ part /= <<".">>

\* store_dir: os.path.join(base_dir, 'data', name), as the entries that
\* the path walks through below the data directory
store_dir(name) == SelectSeq(SplitPath(name), NamesAnEntry)

\* store_exists: Path(store_dir(base_dir, name)).is_dir(), for a path of
\* one entry
store_exists(name) ==
    Len(store_dir(name)) = 1 /\ store_dir(name)[1] \in stores

Whitespace == {" ", "\n"}

\* str.strip()
RECURSIVE lstrip(_)
lstrip(text) ==
    IF text /= <<>> /\ Head(text) \in Whitespace THEN lstrip(Tail(text))
    ELSE text

RECURSIVE rstrip(_)
rstrip(text) ==
    IF text /= <<>> /\ text[Len(text)] \in Whitespace
    THEN rstrip(SubSeq(text, 1, Len(text) - 1))
    ELSE text

strip(text) == rstrip(lstrip(text))

\* read_active: the default name if the file is missing or holds only
\* whitespace, else its text stripped
read_active ==
    IF active_file = NULL THEN DEFAULT_STORE_NAME
    ELSE IF strip(active_file[1]) = <<>> THEN DEFAULT_STORE_NAME
    ELSE strip(active_file[1])

\* write_active: the name and a newline
write_active(name) == <<name \o <<"\n">>>>

\* store set: the store must exist, then its name is written to `active`
StoreSet(name) ==
    LET error == IF ~store_exists(name) THEN "does not exist" ELSE ""
    IN /\ applied' = <<[command |-> "store set", args |-> name,
                        error |-> error]>>
       /\ active_file' = IF error = "" THEN write_active(name)
                         ELSE active_file
       /\ UNCHANGED <<db, tx, procs, clock, outcome, stores, handle, recalled,
                    beam, called>>

\* store remove: the store must exist and its name must differ from the
\* one read from `active`, then shutil.rmtree removes its directory
StoreRemove(name) ==
    LET error == IF ~store_exists(name) THEN "does not exist"
                 ELSE IF name = read_active
                      THEN "cannot remove the active store"
                 ELSE ""
    IN /\ applied' = <<[command |-> "store remove", args |-> name,
                        error |-> error]>>
       /\ stores' = IF error = "" THEN stores \ {store_dir(name)[1]}
                    ELSE stores
       /\ UNCHANGED <<db, tx, procs, clock, outcome, elsewhere>>

\* recall: every result's access count is bumped
RecallWithin(query, available, reads) ==
    /\ tx = NULL
    /\ LET d == migrate(db, clock)
           results == intent_aware_recall(
                          d, query, IF available THEN embed(query) ELSE NULL,
                          DEFAULT_LIMIT)
       IN /\ \A id \in results : d.insights[id].access_count < reads
          /\ db' = log_op(IncrementAll(d, results), "recall", NoId)
    /\ UNCHANGED <<tx, procs, clock, outcome, applied, stores, elsewhere>>

Recall(query, available) == RecallWithin(query, available, MaxReads)

\* recall --basic
RecallBasic(query) ==
    /\ tx = NULL
    /\ LET d == migrate(db, clock)
           results == query_insights(d, query)
       IN /\ \A id \in results : d.insights[id].access_count < MaxReads
          /\ db' = log_op(IncrementAll(d, results), "recall:basic", NoId)
    /\ UNCHANGED <<tx, procs, clock, outcome, applied, stores, elsewhere>>

\* search
Search(query) ==
    /\ tx = NULL
    /\ LET d == migrate(db, clock)
           results == keyword_search(d, get_all_active_insights(d), query,
                                     DEFAULT_LIMIT)
       IN /\ \A id \in results : d.insights[id].access_count < MaxReads
          /\ db' = log_op(IncrementAll(d, results), "search", NoId)
    /\ UNCHANGED <<tx, procs, clock, outcome, applied, stores, elsewhere>>

\* gc --keep
GcKeep(id) ==
    /\ tx = NULL
    /\ LET d == migrate(db, clock)
       IN IF get_insight_by_id(d, id) = NULL THEN db' = d
          ELSE /\ d.insights[id].access_count + 3 <= MaxAccess
               /\ db' = log_op(
                       refresh_effective_importance(
                           boost_retention(d, id).db, id).db,
                       "gc-keep", id)
    /\ UNCHANGED <<tx, procs, clock, outcome, applied, stores, elsewhere>>

\* embed <id>, with the embedding service available
Embed(id) ==
    /\ tx = NULL
    /\ LET d == migrate(db, clock)
       IN db' = IF get_insight_by_id(d, id) = NULL THEN d
                ELSE update_embedding(d, id, embed(d.insights[id].content))
    /\ UNCHANGED <<tx, procs, clock, outcome, applied, stores, elsewhere>>

\* remember, forget and gc --keep, with up to MaxProcs invocations of
\* remember running at the same time
Next ==
    \/ \E r \in Requests :
           RememberPrepare(r.content, r.importance, r.no_diff, r.available)
    \/ \E p \in Ids : RememberSkip(p)
    \/ \E p \in Ids, fault \in {"none", "insert_insight"} :
           RememberBegin(p, fault)
    \/ \E p \in Ids, fault \in {"none", "update_entities", "auto_prune"} :
           RememberFinish(p, fault)
    \/ \E id \in Ids : Forget(id)
    \/ \E id \in Ids : GcKeep(id)

Spec == Init /\ [][Next]_vars

\* the requests of the runs that issue every command
OpsRequests == {r \in Requests : r.content \in {"T2", "T4"}}

\* every command, with one remember running at a time; the other commands
\* run before, after or between its preparation and its transaction
NextOps ==
    \/ \E r \in OpsRequests :
           /\ procs = <<>>
           /\ RememberPrepare(r.content, r.importance, r.no_diff,
                              r.available)
    \/ \E p \in Ids : RememberSkip(p)
    \/ \E p \in Ids : RememberBegin(p, "none")
    \/ \E p \in Ids : RememberFinish(p, "none")
    \/ \E id \in Ids : Forget(id)
    \/ \E s \in Ids : \E t \in Ids \ {s} : Link(s, t, "temporal", <<1, 2>>)
    \/ \E query \in Queries, available \in BOOLEAN : Recall(query, available)
    \/ \E query \in Queries : RecallBasic(query)
    \/ \E query \in Queries : Search(query)
    \/ \E id \in Ids : GcKeep(id)
    \/ \E id \in Ids : Embed(id)

SpecOps == Init /\ [][NextOps]_vars

\* the commands that raise access_count or soft-delete, with one remember
\* running at a time and recall repeated until its results have been
\* returned MaxAccess times
NextImmune ==
    \/ \E r \in Requests :
           /\ procs = <<>>
           /\ RememberPrepare(r.content, r.importance, r.no_diff,
                              r.available)
    \/ \E p \in Ids : RememberSkip(p)
    \/ \E p \in Ids : RememberBegin(p, "none")
    \/ \E p \in Ids : RememberFinish(p, "none")
    \/ \E id \in Ids : Forget(id)
    \/ \E query \in Queries : RecallWithin(query, FALSE, MaxAccess)
    \/ \E id \in Ids : GcKeep(id)

SpecImmune == Init /\ [][NextImmune]_vars

\* the commands that write edges or delete them, with one remember
\* running at a time
NextGraph ==
    \/ \E r \in Requests :
           /\ procs = <<>>
           /\ RememberPrepare(r.content, r.importance, r.no_diff,
                              r.available)
    \/ \E p \in Ids : RememberSkip(p)
    \/ \E p \in Ids : RememberBegin(p, "none")
    \/ \E p \in Ids : RememberFinish(p, "none")
    \/ \E id \in Ids : Forget(id)
    \/ \E s \in Ids : \E t \in Ids \ {s}, edge_type \in {"temporal", "causal"} :
           Link(s, t, edge_type, <<1, 2>>)

SpecGraph == Init /\ [][NextGraph]_vars

\* the remembers of the generators' specification: immune insights, the
\* embedding service answering, no duplicate detection
EngineRequests == {"T1", "T2", "T5"}

\* the sets of keys for which insert_edge raises: none, one key, every key
\* of one type
FailingSets ==
    {{}} \cup {{<<s, t, edge_type>>} : s \in Ids, t \in Ids,
                                      edge_type \in VALID_EDGE_TYPES}
         \cup {{<<s, t, edge_type>> : s \in Ids, t \in Ids} :
                   edge_type \in VALID_EDGE_TYPES}

\* remember one at a time, the insert_edge of the generators failing
NextEngine ==
    \/ \E content \in EngineRequests :
           procs = <<>> /\ RememberPrepare(content, 4, TRUE, TRUE)
    \/ \E p \in Ids : RememberBegin(p, "none")
    \/ \E p \in Ids : \E failing \in FailingSets :
           RememberFinishEdges(p, failing)

SpecEngine == Init /\ [][NextEngine]_vars

\* the names given to store create
StoreNames ==
    {<<"a">>, DEFAULT_STORE_NAME, <<>>, <<"-", "a">>, <<"a", ".">>,
     <<"0", "_", "-">>}

\* remember, link and store create with valid and invalid arguments, and
\* forget, with one remember running at a time
NextValidate ==
    \/ \E c \in RememberCommands : procs = <<>> /\ RememberCommand(c)
    \/ \E p \in Ids : RememberSkip(p)
    \/ \E p \in Ids : RememberBegin(p, "none")
    \/ \E p \in Ids : RememberFinish(p, "none")
    \/ \E id \in Ids : Forget(id)
    \/ \E s \in Ids : \E t \in Ids \ {s},
              edge_type \in {"semantic", "narrative"},
              weight \in {<<1, 2>>, <<3, 2>>, <<-1, 2>>, <<0, 0>>} :
           LinkCommand(s, t, edge_type, weight)
    \/ \E name \in StoreNames : StoreCreate(name)

SpecValidate == Init /\ [][NextValidate]_vars

(***************************************************************************)
(* insert_edge on its own: a store that holds two insights of different   *)
(* sources and no edge yet, and every edge between the two written in any *)
(* order.                                                                  *)
(***************************************************************************)
EdgeInputs ==
    {Edge(s, t, edge_type, weight, metadata, created_at) :
        s \in {1, 2}, t \in {1, 2}, edge_type \in {"temporal", "causal"},
        weight \in {<<1, 1>>, <<1, 2>>},
        metadata \in {[created_by |-> "auto"], [created_by |-> "claude"]},
        created_at \in {1, 2}}

InitEdge ==
    /\ db = insert_insight(
                insert_insight(EmptyDb,
                    [id |-> 1, content |-> "T1", category |-> "general",
                     importance |-> 3, source |-> "user", entities |-> <<>>,
                     access_count |-> 0, created_at |-> 1]).db,
                [id |-> 2, content |-> "T4", category |-> "general",
                 importance |-> 3, source |-> "agent", entities |-> <<>>,
                 access_count |-> 0, created_at |-> 2]).db
    /\ tx = NULL
    /\ procs = <<>>
    /\ clock = 2
    /\ outcome = NoOutcome
    /\ applied = NULL
    /\ stores = {DEFAULT_STORE_NAME}
    /\ active_file = NULL
    /\ handle = NewHandle
    /\ recalled = NothingRecalled
    /\ beam = NoTraversal
    /\ called = NoCall

InsertEdge(e) ==
    /\ e.source_id /= e.target_id
    /\ db' = insert_edge(db, e)
    /\ applied' = <<[edge |-> e, before |-> db]>>
    /\ UNCHANGED <<tx, procs, clock, outcome, stores, elsewhere>>

NextEdge == \E e \in EdgeInputs : InsertEdge(e)

SpecEdge == InitEdge /\ [][NextEdge]_vars

(***************************************************************************)
(* DB.in_transaction on one handle, statement by statement,                *)
(* store/db.py:97-110.  Each running call is a frame [fn, pc, exc]: the    *)
(* closure it was given, the statement it is at, and the exception it is   *)
(* ending with.                                                            *)
(***************************************************************************)
MaxCalls == 3

store_vars == <<db, tx, procs, clock, outcome, applied, stores>>

\* the closures given to in_transaction: one that writes a row, one that
\* writes and raises, one that writes and is interrupted (KeyboardInterrupt
\* is no Exception), one that calls in_transaction again (as
\* tests/test_store.py:256-262 does), and one that does so twice, catching
\* the RuntimeError each time, and then writes
Closures == {"write", "raise", "interrupt", "nested", "nested_caught"}

Top(h) == h.frames[Len(h.frames)]

SetTop(h, frame) == [h EXCEPT !.frames = [@ EXCEPT ![Len(h.frames)] = frame]]

Push(h, fn) ==
    [h EXCEPT !.frames = Append(@, [fn |-> fn, pc |-> "check", exc |-> ""])]

\* the innermost call ends, returning (exc = "") or raising exc: a call
\* made by the program is recorded with its result, a call made by a
\* closure hands its result to the closure
Return(h, exc) ==
    LET ended == Top(h)
        rest == SubSeq(h.frames, 1, Len(h.frames) - 1)
        caller == rest[Len(rest)]
        resumed ==
            IF exc \notin {"", "RuntimeError"}
               \/ (caller.fn = "nested" /\ exc /= "")
            THEN [caller EXCEPT !.pc = "rollback", !.exc = exc]
            ELSE IF caller.fn = "nested" THEN [caller EXCEPT !.pc = "commit"]
            ELSE [caller EXCEPT !.pc = IF caller.pc = "called" THEN "fn2"
                                       ELSE "fn3"]
    IN IF rest = <<>>
       THEN [h EXCEPT !.frames = <<>>,
                      !.returned = Append(@, [fn |-> ended.fn,
                                              result |-> exc])]
       ELSE [h EXCEPT !.frames =
                Append(SubSeq(rest, 1, Len(rest) - 1), resumed)]

\* a check made inside the try block: the except and finally clauses run
RejectedInsideTry(h) ==
    SetTop(h, [Top(h) EXCEPT !.pc = "rollback", !.exc = "RuntimeError"])

\* raise RuntimeError('nested transactions not supported'), before the try
Rejected(h) == Return(h, "RuntimeError")

\* the program calls db.in_transaction(fn)
HandleCall(fn) ==
    /\ handle.frames = <<>>
    /\ Len(handle.returned) < MaxCalls
    /\ handle' = Push(handle, fn)
    /\ UNCHANGED <<store_vars, active_file, recalled, beam, called>>

\* if self._in_tx: raise ...; self._in_tx = True
InTransactionCheck ==
    /\ handle.frames /= <<>>
    /\ Top(handle).pc = "check"
    /\ handle' = IF handle.in_tx
                 THEN Rejected(handle)
                 ELSE SetTop([handle EXCEPT !.in_tx = TRUE],
                             [Top(handle) EXCEPT !.pc = "begin"])
    /\ UNCHANGED <<store_vars, active_file, recalled, beam, called>>

\* BEGIN IMMEDIATE: fails when another connection holds the write lock, and
\* when this connection has a transaction open
InTransactionBegin(fault) ==
    /\ handle.frames /= <<>>
    /\ Top(handle).pc = "begin"
    /\ handle' = IF fault = "locked" \/ handle.conn = "transaction"
                 THEN SetTop(handle,
                             [Top(handle) EXCEPT !.pc = "rollback",
                                                 !.exc = "OperationalError"])
                 ELSE SetTop([handle EXCEPT !.conn = "transaction"],
                             [Top(handle) EXCEPT !.pc = "fn"])
    /\ UNCHANGED <<store_vars, active_file, recalled, beam, called>>

\* fn(): one statement of the closure
ClosureStep ==
    /\ handle.frames /= <<>>
    /\ Top(handle).pc \in {"fn", "fn2", "fn3"}
    /\ LET frame == Top(handle)
           written == [handle EXCEPT !.pending = @ + 1]
       IN handle' =
            CASE frame.fn = "write" ->
                     SetTop(written, [frame EXCEPT !.pc = "commit"])
              [] frame.fn = "raise" ->
                     SetTop(written, [frame EXCEPT !.pc = "rollback",
                                                   !.exc = "ValueError"])
              [] frame.fn = "interrupt" ->
                     SetTop(written,
                            [frame EXCEPT !.pc = "finally",
                                          !.exc = "KeyboardInterrupt"])
              [] frame.fn = "nested" ->
                     Push(SetTop(handle, [frame EXCEPT !.pc = "called"]),
                          "write")
              [] frame.fn = "nested_caught" ->
                     IF frame.pc = "fn3"
                     THEN SetTop(written, [frame EXCEPT !.pc = "commit"])
                     ELSE Push(SetTop(handle,
                                   [frame EXCEPT !.pc =
                                       IF frame.pc = "fn" THEN "called"
                                       ELSE "called2"]),
                               "write")
    /\ UNCHANGED <<store_vars, active_file, recalled, beam, called>>

\* COMMIT: fails when no transaction is open
InTransactionCommit ==
    /\ handle.frames /= <<>>
    /\ Top(handle).pc = "commit"
    /\ handle' = IF handle.conn = "transaction"
                 THEN SetTop([handle EXCEPT !.conn = "autocommit",
                                            !.committed = @ + handle.pending,
                                            !.pending = 0],
                             [Top(handle) EXCEPT !.pc = "finally"])
                 ELSE SetTop(handle,
                             [Top(handle) EXCEPT !.pc = "rollback",
                                                 !.exc = "OperationalError"])
    /\ UNCHANGED <<store_vars, active_file, recalled, beam, called>>

\* except Exception: ROLLBACK; raise.  ROLLBACK itself raises when no
\* transaction is open
InTransactionRollback ==
    /\ handle.frames /= <<>>
    /\ Top(handle).pc = "rollback"
    /\ handle' = IF handle.conn = "transaction"
                 THEN SetTop([handle EXCEPT !.conn = "autocommit",
                                            !.pending = 0],
                             [Top(handle) EXCEPT !.pc = "finally"])
                 ELSE SetTop(handle,
                             [Top(handle) EXCEPT !.pc = "finally",
                                                 !.exc = "OperationalError"])
    /\ UNCHANGED <<store_vars, active_file, recalled, beam, called>>

\* finally: self._in_tx = False, and the call ends
InTransactionFinally ==
    /\ handle.frames /= <<>>
    /\ Top(handle).pc = "finally"
    /\ handle' = Return([handle EXCEPT !.in_tx = FALSE], Top(handle).exc)
    /\ UNCHANGED <<store_vars, active_file, recalled, beam, called>>

NextHandle ==
    \/ \E fn \in Closures : HandleCall(fn)
    \/ InTransactionCheck
    \/ \E fault \in {"none", "locked"} : InTransactionBegin(fault)
    \/ ClosureStep
    \/ InTransactionCommit
    \/ InTransactionRollback
    \/ InTransactionFinally

SpecHandle == Init /\ [][NextHandle]_vars

(***************************************************************************)
(* causal_topological_sort, search/recall.py:155-197, applied to the       *)
(* results of a recall: a list of [id, score] with distinct ids, in        *)
(* descending order of score.                                              *)
(***************************************************************************)
\* SELECT ... FROM edges WHERE source_id = ? AND edge_type = ?
get_edges_by_source_and_type(d, source_id, edge_type) ==
    {e \in d.edges : e.source_id = source_id /\ e.edge_type = edge_type}

\* adj[nid]: the targets, among the ids of the results, of the causal
\* edges of nid
CausalTargets(d, id_set, nid) ==
    {e.target_id : e \in {x \in get_edges_by_source_and_type(d, nid, "causal")
                             : x.target_id \in id_set}}

\* heappop on tuples (-score, id): the greatest score, then the least id
HeapTop(heap, score) ==
    CHOOSE n \in heap : \A o \in heap :
        score[n] > score[o] \/ (score[n] = score[o] /\ n <= o)

RECURSIVE Kahn(_, _, _, _, _, _)
\* the while loop: heap_list holds the ids whose in_degree is 0 and that
\* are not yet ordered
Kahn(d, id_set, score, heap_list, in_degree, ordered) ==
    IF heap_list = {} THEN ordered
    ELSE LET nid == HeapTop(heap_list, score)
             targets == CausalTargets(d, id_set, nid)
             decreased == [t \in id_set |->
                              IF t \in targets THEN in_degree[t] - 1
                              ELSE in_degree[t]]
         IN Kahn(d, id_set, score,
                 (heap_list \ {nid})
                     \cup {t \in targets : decreased[t] = 0},
                 decreased, Append(ordered, nid))

\* a sort that drops the results Kahn's algorithm did not order
UncoveredDropped(results, covered) == <<>>

\* the results whose id is not covered, in the order of `results`
Uncovered(results, covered) ==
    LET NotCovered(r) == r.id \notin covered
    IN SelectSeq(results, NotCovered)

causal_topological_sort(d, results) ==
    IF Len(results) <= 1 THEN results
    ELSE LET id_set == {results[i].id : i \in 1..Len(results)}
             id_to_result == [id \in id_set |->
                 results[CHOOSE i \in 1..Len(results) : results[i].id = id]]
             score == [id \in id_set |-> id_to_result[id].score]
             in_degree == [t \in id_set |->
                 Cardinality({n \in id_set :
                                 t \in CausalTargets(d, id_set, n)})]
             ids == Kahn(d, id_set, score,
                         {id \in id_set : in_degree[id] = 0}, in_degree,
                         <<>>)
             ordered == [i \in 1..Len(ids) |-> id_to_result[ids[i]]]
         IN IF Len(ordered) < Len(results)
            THEN ordered \o Uncovered(results, Range(ids))
            ELSE ordered

RECURSIVE InsertAll(_, _)
\* a store with an active insight for every id of S
InsertAll(d, S) ==
    IF S = {} THEN d
    ELSE LET id == CHOOSE x \in S : \A y \in S : x <= y
         IN InsertAll(
                insert_insight(d,
                    [id |-> id, content |-> "T1", category |-> "general",
                     importance |-> 3, source |-> "user", entities |-> <<>>,
                     access_count |-> 0, created_at |-> id]).db,
                S \ {id})

\* the stores sorted on: an insight for every id, a temporal link between
\* 1 and 2, and causal edges on the pairs of E, loops included
SortStore(E) ==
    [InsertAll(EmptyDb, Ids) EXCEPT !.edges =
        {Edge(1, 2, "temporal", <<1, 1>>, [sub_type |-> "backbone"], 0),
         Edge(2, 1, "temporal", <<1, 1>>, [sub_type |-> "backbone"], 0)}
        \cup {Edge(pair[1], pair[2], "causal", <<1, 2>>,
                   [created_by |-> "claude"], 0) : pair \in E}]

\* the lists results.sort(key = -score) can leave: distinct ids, scores
\* that never go up
SortInputs ==
    {r \in UNION {[1..n -> [id : Ids, score : 1..2]] : n \in 0..MaxIds} :
        /\ \A i, j \in 1..Len(r) : i < j =>
               r[i].id /= r[j].id /\ r[i].score >= r[j].score}

InitSort ==
    /\ \E E \in SUBSET (Ids \X Ids) : db = SortStore(E)
    /\ tx = NULL
    /\ procs = <<>>
    /\ clock = MaxIds
    /\ outcome = NoOutcome
    /\ applied = NULL
    /\ stores = {DEFAULT_STORE_NAME}
    /\ active_file = NULL
    /\ handle = NewHandle
    /\ \E r \in SortInputs : recalled = [results |-> r, sorted |-> NULL]
    /\ beam = NoTraversal
    /\ called = NoCall

\* if intent == 'WHY': results = causal_topological_sort(db, results)
CausalSort ==
    /\ recalled.sorted = NULL
    /\ recalled' = [recalled EXCEPT !.sorted =
                       <<causal_topological_sort(db, recalled.results)>>]
    /\ UNCHANGED <<store_vars, active_file, handle, beam, called>>

NextSort == CausalSort

SpecSort == InitSort /\ [][NextSort]_vars

(***************************************************************************)
(* The traversal of intent_aware_recall, search/recall.py:279-293, and     *)
(* beam_search_from_anchor, search/recall.py:76-152, statement by          *)
(* statement, for the intent WHY and without a query vector.  Scores are   *)
(* in thousandths.  The traversal parameters are scaled down from          *)
(* (15, 5, 500), and the graphs have BeamNodes insights.                   *)
(***************************************************************************)
BEAM_WIDTH == 1

MAX_DEPTH == 2

MAX_VISITED == 3

BeamNodes == 4

\* INTENT_WEIGHTS['WHY'], search/intent.py:13-16
Weights(edge_type) ==
    CASE edge_type = "causal" -> 700
      [] edge_type = "temporal" -> 200
      [] OTHER -> 50

\* the edges the graphs traversed are made of
BeamEdgePool ==
    {Edge(1, 2, "temporal", <<1, 1>>, [sub_type |-> "backbone"], 0),
     Edge(2, 1, "temporal", <<1, 1>>, [sub_type |-> "backbone"], 0),
     Edge(1, 3, "causal", <<1, 2>>, [sub_type |-> "causes"], 0),
     Edge(3, 2, "causal", <<1, 1>>, [sub_type |-> "causes"], 0),
     Edge(2, 2, "semantic", <<1, 2>>, [created_by |-> "claude"], 0),
     Edge(3, 4, "entity", <<1, 1>>, [entity |-> "Go"], 0)}

\* anchor_map after the normalisation: one or two anchors, the best with
\* score 1.0
BeamAnchors ==
    {<<[id |-> a, score |-> 1000]>> : a \in 1..BeamNodes}
    \cup {<<[id |-> ab[1], score |-> sc[1]], [id |-> ab[2], score |-> sc[2]]>> :
              ab \in {x \in (1..BeamNodes) \X (1..BeamNodes) : x[1] /= x[2]},
              sc \in {<<1000, 1000>>, <<1000, 500>>, <<500, 1000>>}}

\* score_map[aid] = score, via_map[aid] = via for every anchor
StartTraversal(anchors) ==
    LET ids == {anchors[i].id : i \in 1..Len(anchors)}
    IN [score_map |-> [id \in ids |->
                         anchors[CHOOSE i \in 1..Len(anchors) :
                                     anchors[i].id = id].score],
        via_map |-> [id \in ids |-> "keyword"],
        anchors |-> anchors,
        pass |-> NULL]

InitBeam ==
    /\ \E E \in SUBSET BeamEdgePool :
           db = [InsertAll(EmptyDb, 1..BeamNodes) EXCEPT !.edges = E]
    /\ tx = NULL
    /\ procs = <<>>
    /\ clock = BeamNodes
    /\ outcome = NoOutcome
    /\ applied = NULL
    /\ stores = {DEFAULT_STORE_NAME}
    /\ active_file = NULL
    /\ handle = NewHandle
    /\ recalled = NothingRecalled
    /\ \E anchors \in BeamAnchors : beam = StartTraversal(anchors)
    /\ called = NoCall

\* heappop on tuples (-score, id, depth)
HeapBefore(x, y) ==
    \/ x.score > y.score
    \/ x.score = y.score /\ x.id < y.id
    \/ x.score = y.score /\ x.id = y.id /\ x.d <= y.d

RECURSIVE HeapPops(_, _)
\* the items heappop returns in `count` calls, or until the heap is empty
HeapPops(next_items, count) ==
    IF next_items = {} \/ count = 0 THEN <<>>
    ELSE LET item == CHOOSE x \in next_items :
                         \A y \in next_items : HeapBefore(x, y)
         IN <<item>> \o HeapPops(next_items \ {item}, count - 1)

\* the comparison of a neighbor's score without the comparison
ScoreImprovesAlways(score_map, neighbor_id, neighbor_score) == TRUE

\* existing = score_map.get(neighbor_id); if existing is None or
\* neighbor_score > existing
ScoreImproves(score_map, neighbor_id, neighbor_score) ==
    \/ neighbor_id \notin DOMAIN score_map
    \/ neighbor_score > score_map[neighbor_id]

\* beam_search_from_anchor is called for the next anchor: visited,
\* total_visited and current are set up
BeamStart ==
    /\ beam.pass = NULL
    /\ beam.anchors /= <<>>
    /\ LET a == Head(beam.anchors)
       IN beam' = [beam EXCEPT
              !.anchors = Tail(@),
              !.pass = <<[start |-> a.id, start_score |-> a.score, depth |-> 0, phase |-> "level",
                          current |-> <<[score |-> a.score, id |-> a.id,
                                         d |-> 0]>>,
                          queue |-> <<>>, nid |-> a.id, cur_score |-> 0,
                          edges |-> {}, next_items |-> {},
                          visited |-> {a.id}, total_visited |-> 1,
                          enqueued |-> <<>>, via |-> "none"]>>]
    /\ UNCHANGED <<store_vars, active_file, handle, recalled, called>>

\* for depth in range(max_depth): if not current or total_visited >=
\* max_visited: break
BeamLevel ==
    /\ beam.pass /= NULL
    /\ beam.pass[1].phase = "level"
    /\ LET p == beam.pass[1]
       IN beam' = IF p.depth >= MAX_DEPTH \/ p.current = <<>>
                      \/ p.total_visited >= MAX_VISITED
                  THEN [beam EXCEPT !.pass = NULL]
                  ELSE [beam EXCEPT !.pass =
                           <<[p EXCEPT !.phase = "nodes",
                                       !.queue = p.current,
                                       !.next_items = {}]>>]
    /\ UNCHANGED <<store_vars, active_file, handle, recalled, called>>

\* for neg_score, nid, d in current: the next item is taken and its edges
\* are read; after the last one the beam_width best of next_items become
\* current (an item of another depth would be set aside and dropped)
BeamNode ==
    /\ beam.pass /= NULL
    /\ beam.pass[1].phase = "nodes"
    /\ LET p == beam.pass[1]
           item == Head(p.queue)
       IN beam' = [beam EXCEPT !.pass =
              <<IF p.queue = <<>>
                THEN [p EXCEPT !.current = HeapPops(p.next_items, BEAM_WIDTH),
                               !.depth = @ + 1, !.phase = "level"]
                ELSE IF item.d /= p.depth
                THEN [p EXCEPT !.queue = Tail(@)]
                ELSE [p EXCEPT !.queue = Tail(@), !.nid = item.id,
                               !.cur_score = item.score,
                               !.edges = get_edges_by_node(db, item.id),
                               !.phase = "edges"]>>]
    /\ UNCHANGED <<store_vars, active_file, handle, recalled, called>>

\* for e in edges: the rows come in the order SQLite returns them, which
\* the query does not fix
BeamEdge ==
    /\ beam.pass /= NULL
    /\ beam.pass[1].phase = "edges"
    /\ LET p == beam.pass[1]
       IN IF p.edges = {} \/ p.total_visited >= MAX_VISITED
          THEN beam' = [beam EXCEPT !.pass =
                           <<[p EXCEPT !.edges = {}, !.phase = "nodes"]>>]
          ELSE \E e \in p.edges :
                 LET neighbor_id == IF e.target_id = p.nid THEN e.source_id
                                    ELSE e.target_id
                     structural == (Weights(e.edge_type) * e.weight[1])
                                       \div e.weight[2]
                     neighbor_score == p.cur_score + structural
                     better == ScoreImproves(beam.score_map, neighbor_id,
                                             neighbor_score)
                     Set(f, v) == [x \in DOMAIN f \cup {neighbor_id} |->
                                      IF x = neighbor_id THEN v ELSE f[x]]
                     fresh == neighbor_id \notin p.visited
                 IN beam' = [beam EXCEPT
                        !.score_map = IF better THEN Set(@, neighbor_score)
                                      ELSE @,
                        !.via_map = IF better THEN Set(@, e.edge_type)
                                    ELSE @,
                        !.pass = <<[p EXCEPT
                            !.edges = @ \ {e},
                            !.via = e.edge_type,
                            !.visited = @ \cup {neighbor_id},
                            !.total_visited = IF fresh THEN @ + 1 ELSE @,
                            !.enqueued = IF fresh
                                         THEN Append(@, neighbor_id)
                                         ELSE @,
                            !.next_items =
                                IF fresh
                                THEN @ \cup {[score |-> neighbor_score,
                                              id |-> neighbor_id,
                                              d |-> p.depth + 1]}
                                ELSE @]>>]
    /\ UNCHANGED <<store_vars, active_file, handle, recalled, called>>

NextBeam ==
    \/ BeamStart
    \/ BeamLevel
    \/ BeamNode
    \/ BeamEdge

SpecBeam == InitBeam /\ [][NextBeam]_vars

\* the traversal of a recall is a loop of the program: it goes on as long
\* as it has a statement to run
SpecBeamLive == SpecBeam /\ WF_vars(NextBeam)

\* the names given to store create, store set and store remove: those of
\* store create, and paths and a name with a newline at its end
StorePaths ==
    (StoreNames \ {<<>>})
        \cup {<<".", "/", "a">>, <<"a", "/">>, <<"a", "\n">>}

\* the store commands, in any order
NextStores ==
    \/ \E name \in StorePaths \cup {<<>>} : StoreCreate(name)
    \/ \E name \in StorePaths : StoreSet(name)
    \/ \E name \in StorePaths : StoreRemove(name)

SpecStores == Init /\ [][NextStores]_vars

(***************************************************************************)
(* The functions of the program that are called on their own.  The state   *)
(* of the store and of the other parts is the initial one throughout.      *)
(***************************************************************************)
Quiet ==
    /\ db = EmptyDb
    /\ tx = NULL
    /\ procs = <<>>
    /\ clock = 0
    /\ outcome = NoOutcome
    /\ applied = NULL
    /\ stores = {DEFAULT_STORE_NAME}
    /\ active_file = NULL
    /\ handle = NewHandle
    /\ recalled = NothingRecalled
    /\ beam = NoTraversal

\* the function returns
Returns(fn, result) ==
    /\ called.fn = fn
    /\ called.result = NULL
    /\ called' = [called EXCEPT !.result = <<result>>]
    /\ UNCHANGED <<store_vars, active_file, handle, recalled, beam>>

\* similarities are the multiples of 1/SimSteps from 0 to 1
SimSteps == 20

\* every text of the tables, as new and as existing text
ClassifyInputs ==
    [similarity : 0..SimSteps, new_text : Contents \cup {"T5"},
     existing_text : Contents \cup {"T5"}]

InitClassify ==
    /\ Quiet
    /\ \E a \in ClassifyInputs :
           called = [fn |-> "classify_suggestion", args |-> a, result |-> NULL]

\* classify_suggestion(similarity, new_text, existing_text)
Classify ==
    Returns("classify_suggestion",
            classify_suggestion(2 * called.args.similarity < SimSteps,
                                10 * called.args.similarity > 9 * SimSteps,
                                called.args.new_text, called.args.existing_text))

NextClassify == Classify

SpecClassify == InitClassify /\ [][NextClassify]_vars

(***************************************************************************)
(* search/intent.py.  A query is a sequence of lowercase words; the        *)
(* patterns match whole words, and the ones of ENTITY_PATTERN that are     *)
(* made of several words are left out of the vocabulary.                   *)
(***************************************************************************)
MaxWords == 4

WHY_PATTERN ==
    {"why", "reason", "because", "cause", "motivation", "rationale"}

WHEN_PATTERN ==
    {"when", "time", "date", "before", "after", "during", "timeline",
     "history", "sequence"}

ENTITY_PATTERN == {"describe", "about"}

\* len(pattern.findall(q))
FindallCount(pattern, q) ==
    Cardinality({i \in 1..Len(q) : q[i] \in pattern})

detect_intent(query) ==
    LET why_score == FindallCount(WHY_PATTERN, query)
        when_score == FindallCount(WHEN_PATTERN, query)
        entity_score == FindallCount(ENTITY_PATTERN, query)
    IN IF why_score > when_score /\ why_score > entity_score
              /\ why_score > 0
       THEN "WHY"
       ELSE IF when_score > why_score /\ when_score > entity_score
                   /\ when_score > 0
       THEN "WHEN"
       ELSE IF entity_score > 0 THEN "ENTITY"
       ELSE "GENERAL"

IntentWords == {"why", "because", "when", "about", "sqlite"}

IntentQueries ==
    UNION {[1..n -> IntentWords] : n \in 0..MaxWords}

InitIntent ==
    /\ Quiet
    /\ \E q \in IntentQueries :
           called = [fn |-> "detect_intent", args |-> q, result |-> NULL]

DetectIntent == Returns("detect_intent", detect_intent(called.args))

NextIntent == DetectIntent

SpecIntent == InitIntent /\ [][NextIntent]_vars

(***************************************************************************)
(* The end of intent_aware_recall, search/recall.py:377-398: the results   *)
(* are cut to the limit and the hint is set from their number.             *)
(***************************************************************************)
MaxCandidates == 10

MaxLimit == 10

\* if limit > 0 and len(results) > limit: results = results[:limit]
Truncated(count, limit) ==
    IF limit > 0 /\ count > limit THEN limit ELSE count

\* hint = 'sparse_results' if not results or (limit > 0 and len(results) <
\* limit // 2); meta holds no hint when hint is ''
RecallHint(count, limit) ==
    IF count = 0 \/ (limit > 0 /\ count < limit \div 2)
    THEN "sparse_results" ELSE ""

InitHint ==
    /\ Quiet
    /\ \E count \in 0..MaxCandidates, limit \in 0..MaxLimit :
           called = [fn |-> "intent_aware_recall",
                     args |-> [candidates |-> count, limit |-> limit],
                     result |-> NULL]

RecallTail ==
    LET count == Truncated(called.args.candidates, called.args.limit)
    IN Returns("intent_aware_recall",
               [results |-> count,
                hint |-> RecallHint(count, called.args.limit)])

NextHint == RecallTail

SpecHint == InitHint /\ [][NextHint]_vars

(***************************************************************************)
(* graph/bfs.py, statement by statement: the queue loop and, inside it,    *)
(* the loop over the edges at the node taken from the queue.  The graphs   *)
(* are those of the beam traversal, with insight 3 active or soft-deleted  *)
(* (its edges kept, as after a forget that raced a remember).              *)
(***************************************************************************)
MaxBfsDepth == 3

MaxBfsNodes == 2

BfsOptions ==
    [start_id : 1..BeamNodes, max_depth : 0..MaxBfsDepth,
     max_nodes : 0..MaxBfsNodes, edge_filter : {"", "causal"}]

BfsStores ==
    {[d EXCEPT !.edges = E] :
        d \in {InsertAll(EmptyDb, 1..BeamNodes),
               SoftDeleteUpdate(InsertAll(EmptyDb, 1..BeamNodes), 3,
                                BeamNodes)},
        E \in SUBSET BeamEdgePool}

InitBfs ==
    /\ db \in BfsStores
    /\ tx = NULL
    /\ procs = <<>>
    /\ clock = BeamNodes
    /\ outcome = NoOutcome
    /\ applied = NULL
    /\ stores = {DEFAULT_STORE_NAME}
    /\ active_file = NULL
    /\ handle = NewHandle
    /\ recalled = NothingRecalled
    /\ beam = NoTraversal
    /\ \E opts \in BfsOptions :
           called = [fn |-> "bfs", args |-> opts, result |-> NULL,
                     pc |-> "start", visited |-> {}, queue |-> <<>>,
                     found |-> <<>>, cur_id |-> NoId, hop |-> 0,
                     edges |-> {}]

\* SELECT ... FROM edges
get_all_edges(d) == d.edges

\* a search that takes every neighbour for new
AlreadyVisitedNever(visited, neighbor_id) == FALSE

\* if neighbor_id in visited: continue
AlreadyVisited(visited, neighbor_id) == neighbor_id \in visited

\* max_nodes > 0 and len(result) >= max_nodes
BfsFull(c) ==
    c.args.max_nodes > 0 /\ Len(c.found) >= c.args.max_nodes

\* bfs is entered: no active insight, no result; else visited and queue
\* hold the start
BfsEnter ==
    /\ called.fn = "bfs"
    /\ called.pc = "start"
    /\ called' = IF get_all_active_insights(db) = {}
                 THEN [called EXCEPT !.result = <<<<>>>>, !.pc = "done"]
                 ELSE [called EXCEPT !.pc = "while",
                                     !.visited = {called.args.start_id},
                                     !.queue = <<[id |-> called.args.start_id,
                                                  hop |-> 0]>>]
    /\ UNCHANGED <<store_vars, active_file, handle, recalled, beam>>

\* while queue: break when the result is full; popleft; continue when the
\* hop is max_depth; else the edges at cur_id are gone through
BfsPop ==
    /\ called.fn = "bfs"
    /\ called.pc = "while"
    /\ called' =
           IF called.queue = <<>> \/ BfsFull(called)
           THEN [called EXCEPT !.result = <<called.found>>, !.pc = "done"]
           ELSE LET cur == Head(called.queue)
                IN IF cur.hop >= called.args.max_depth
                   THEN [called EXCEPT !.queue = Tail(@)]
                   ELSE [called EXCEPT
                            !.queue = Tail(@), !.cur_id = cur.id,
                            !.hop = cur.hop,
                            !.edges = {e \in get_all_edges(db) :
                                          \/ e.source_id = cur.id
                                          \/ e.target_id = cur.id},
                            !.pc = "edges"]
    /\ UNCHANGED <<store_vars, active_file, handle, recalled, beam>>

\* for edge in edge_adj.get(cur_id, []): the rows come in the order of
\* get_all_edges, which the query does not fix
BfsEdge ==
    /\ called.fn = "bfs"
    /\ called.pc = "edges"
    /\ IF called.edges = {}
       THEN called' = [called EXCEPT !.pc = "while"]
       ELSE \E edge \in called.edges :
              LET neighbor_id == IF edge.target_id = called.cur_id
                                 THEN edge.source_id ELSE edge.target_id
                  rest == [called EXCEPT !.edges = @ \ {edge}]
                  seen == [rest EXCEPT !.visited = @ \cup {neighbor_id}]
                  added == [seen EXCEPT !.found =
                               Append(@, [id |-> neighbor_id,
                                          hop |-> called.hop + 1,
                                          via_edge |-> edge.edge_type])]
              IN called' =
                     IF called.args.edge_filter /= ""
                            /\ edge.edge_type /= called.args.edge_filter
                     THEN rest
                     ELSE IF AlreadyVisited(called.visited, neighbor_id)
                     THEN rest
                     ELSE IF neighbor_id \notin get_all_active_insights(db)
                     THEN seen
                     ELSE IF BfsFull(added)
                     THEN [added EXCEPT !.edges = {}, !.pc = "while"]
                     ELSE [added EXCEPT !.queue =
                              Append(@, [id |-> neighbor_id,
                                         hop |-> called.hop + 1])]
    /\ UNCHANGED <<store_vars, active_file, handle, recalled, beam>>

NextBfs ==
    \/ BfsEnter
    \/ BfsPop
    \/ BfsEdge

\* bfs is a loop of the program: it goes on as long as it has a statement
\* to run
SpecBfs == InitBfs /\ [][NextBfs]_vars /\ WF_vars(NextBfs)

(***************************************************************************)
(* Properties.                                                             *)
(***************************************************************************)

\* a `remember` ends in this step, and its transaction committed
RememberCommitted ==
    /\ outcome' /= outcome
    /\ outcome'.action \in {"added", "updated"}

DeletedIds(d) == RowIds(d) \ ActiveIds(d)

\* C2: in every committed state no edge has a soft-deleted insight as an
\* endpoint
C2_NoEdgeToDeleted ==
    \A e \in db.edges :
        /\ e.source_id \notin DeletedIds(db)
        /\ e.target_id \notin DeletedIds(db)

\* C3: when the closure run by in_transaction raises, the store is again
\* what it was before the call and the caller gets the error; when the
\* closure returns, what it wrote is committed in one step: the new row,
\* the soft-delete of the replaced insight and the oplog row were all
\* absent before the step and are all there after it
C3_TransactionAtomic ==
    [][\A p \in DOMAIN procs :
          (p \notin DOMAIN procs' /\ procs[p].diff_action /= "skipped")
          => LET start == IF tx = NULL THEN db ELSE tx[1].pre
                 replaced == procs[p].replaced_id
                 raised == outcome'.raised
             IN IF raised \cap {"insert_insight", "update_entities"} /= {}
                THEN /\ outcome'.action = "error"
                     /\ db' = start
                     /\ db' = db
                ELSE /\ outcome'.action = procs[p].diff_action
                     /\ p \notin RowIds(db)
                     /\ p \in ActiveIds(db')
                     /\ db'.oplog[Len(db'.oplog)]
                            = [operation |-> "remember", insight_id |-> p]
                     /\ (/\ procs[p].diff_action = "updated"
                         /\ replaced /= NoId
                         /\ "soft_delete_insight" \notin raised)
                        => /\ replaced \in ActiveIds(db)
                           /\ replaced \in DeletedIds(db')
                           /\ \A e \in db'.edges :
                                  replaced \notin {e.source_id, e.target_id}]_vars

\* a transaction that had inserted its insight into a store that holds
\* others was rolled back when update_entities raised: the new insight
\* has no row
C3_Witness ==
    /\ outcome.action = "error"
    /\ "update_entities" \in outcome.raised
    /\ outcome.id \notin RowIds(db)
    /\ ActiveIds(db) /= {}
    /\ tx = NULL

\* the stores a prune can be run on: the committed one and the one an
\* open transaction is writing
Stores == {db} \cup (IF tx = NULL THEN {} ELSE {tx[1].work})

\* the insights that d has active and r has not
Pruned(d, r) == ActiveIds(d) \ ActiveIds(r)

\* C4: whatever the capacity and the exclude list, auto_prune soft-deletes
\* no insight with importance >= 4, none with access_count >= 3 and none
\* of the exclude list
C4_PruneSparesImmune ==
    \A d \in Stores, max_insights \in 0..MAX_INSIGHTS :
        \A exclude_ids \in SUBSET RowIds(d) :
            \A r \in auto_prune(d, max_insights, exclude_ids, clock) :
                \A id \in Pruned(d, r.db) :
                    /\ d.insights[id].importance < 4
                    /\ d.insights[id].access_count < 3
                    /\ id \notin exclude_ids

\* a store over capacity in which a prune deletes an insight while an
\* insight of high importance, one of high access count and an excluded
\* one that is not immune all stay
C4_Witness ==
    \E x \in ActiveIds(db) :
        /\ ~is_immune(db.insights[x].importance, db.insights[x].access_count)
        /\ \E i \in ActiveIds(db) : db.insights[i].importance >= 4
        /\ \E i \in ActiveIds(db) : db.insights[i].access_count >= 3
        /\ \E r \in auto_prune(db, 0, {x}, clock) :
               /\ r.pruned > 0
               /\ Pruned(db, r.db) /= {}

\* what the reading operations return on the store d, as ids
ReadResults(d) ==
    {id \in Ids : get_insight_by_id(d, id) /= NULL}
    \cup get_all_active_insights(d)
    \cup UNION {query_insights(d, q) : q \in Queries}
    \cup UNION {keyword_search(d, get_all_active_insights(d), q,
                               DEFAULT_LIMIT) : q \in Queries}
    \cup UNION {intent_aware_recall(d, q, embed(q), DEFAULT_LIMIT)
                   \cup intent_aware_recall(d, q, NULL, DEFAULT_LIMIT) :
                   q \in Queries}
    \cup UNION {{n.id : n \in bfs(d, start, DEFAULT_DEPTH, edge_filter)} :
                   start \in Ids, edge_filter \in {""} \cup VALID_EDGE_TYPES}

\* C5: get_insight_by_id, get_all_active_insights, query_insights, keyword
\* search over the active set, intent_aware_recall and bfs return no
\* soft-deleted insight
C5_ReadsSkipDeleted == ReadResults(db) \cap DeletedIds(db) = {}

\* an active insight has an edge to a soft-deleted one, and the reads
\* return the active one
C5_Witness ==
    \E e \in db.edges :
        /\ e.source_id \in ActiveIds(db)
        /\ e.target_id \in DeletedIds(db)
        /\ e.source_id \in ReadResults(db)
        /\ \E q \in Queries :
               e.source_id \in intent_aware_recall(db, q, embed(q),
                                                   DEFAULT_LIMIT)

\* C6: no step of any command makes a soft-deleted insight active again
\* or removes its row: deleted_at keeps the value it was given
C6_NeverRevived ==
    [][\A id \in DeletedIds(db) :
          /\ id \in DeletedIds(db')
          /\ db'.insights[id].deleted_at = db.insights[id].deleted_at]_vars

\* an insight was soft-deleted, and since then a remember committed a newer
\* insight and a reading command ran
C6_Witness ==
    /\ \E id \in DeletedIds(db) :
           /\ outcome.id > id
           /\ outcome.action = "added"
           /\ db.insights[id].deleted_at[1] < clock
    /\ db.oplog[Len(db.oplog)].operation
           \in {"recall", "recall:basic", "search"}

\* the edges the generators write for the insight of the invocation p,
\* whose transaction is open
GeneratedEdges(p) ==
    on_insight_created(tx[1].work, Insight(procs[p]), procs[p].embed_cache,
                       clock, {}).db.edges \ tx[1].work.edges

\* C7: an insight becomes visible to the other connections only in the
\* step that commits its transaction, and in that step its embedding and
\* every automatic edge written for it (but those the prune of the same
\* transaction removed) become visible with it; no later step adds an
\* automatic edge between insights that were already visible
C7_InsightAndEdgesTogether ==
    [][/\ \A id \in RowIds(db') \ RowIds(db) :
             /\ tx /= NULL
             /\ tx' = NULL
             /\ tx[1].owner = id
             /\ db'.insights[id].embedding = procs[id].embedding_vec
             /\ \A e \in GeneratedEdges(id) :
                    \/ e \in db'.edges
                    \/ {e.source_id, e.target_id} \cap DeletedIds(db') /= {}
       /\ \A e \in db'.edges \ db.edges :
             \/ e.metadata = [created_by |-> "claude"]
             \/ {e.source_id, e.target_id} \ RowIds(db) /= {}]_vars

\* a remember has just committed an embedded insight that has automatic
\* edges
C7_Witness ==
    /\ tx = NULL
    /\ outcome.action \in {"added", "updated"}
    /\ outcome.id \in ActiveIds(db)
    /\ db.insights[outcome.id].embedding /= NULL
    /\ \E e \in db.edges : e.source_id = outcome.id /\ e.edge_type = "semantic"
    /\ \E e \in db.edges : e.target_id = outcome.id /\ e.edge_type = "temporal"

\* a `remember` that went into its transaction ends in this step
RememberTxEnded == outcome' /= outcome /\ outcome'.action /= "skipped"

C9_InsertEdgeUpsert ==
    applied /= NULL
    => LET e == applied[1].edge
           before == applied[1].before
       IN /\ e \in db.edges
          /\ \A x \in db.edges : EdgeKey(x) = EdgeKey(e) => x = e
          /\ {x \in db.edges : EdgeKey(x) /= EdgeKey(e)}
                 = {x \in before.edges : EdgeKey(x) /= EdgeKey(e)}
          /\ \A x, y \in db.edges : EdgeKey(x) = EdgeKey(y) => x = y
          /\ insert_edge(db, e) = db
          /\ db.insights = before.insights

\* an edge was inserted over a row of the same key that differed in
\* weight, metadata and created_at, in a store that has rows of other keys
C9_Witness ==
    /\ applied /= NULL
    /\ \E x \in applied[1].before.edges :
           /\ EdgeKey(x) = EdgeKey(applied[1].edge)
           /\ x.weight /= applied[1].edge.weight
           /\ x.metadata /= applied[1].edge.metadata
           /\ x.created_at /= applied[1].edge.created_at
    /\ \E x \in db.edges : EdgeKey(x) /= EdgeKey(applied[1].edge)

\* the rows of d that go the other way between the endpoints of e, with
\* the type of e
Mirrors(d, e) ==
    {m \in d.edges : /\ m.source_id = e.target_id
                     /\ m.target_id = e.source_id
                     /\ m.edge_type = e.edge_type}

\* the metadata is that of a backbone row
IsBackbone(metadata) ==
    /\ DOMAIN metadata = {"sub_type", "direction"}
    /\ metadata.sub_type = "backbone"

C11_CausalSingleDirection ==
    \A e \in db.edges :
        e.edge_type = "causal" => Mirrors(db, e) = {}

\* the last n rows of the sequence s
LastRows(s, n) == SubSeq(s, Len(s) - n + 1, Len(s))

\* C12: the oplog never holds more than MAX_OPLOG_ENTRIES rows, in the
\* committed store and in the one a transaction is writing, and a log_op
\* on it appends its row and keeps the newest rows only: the result is
\* the last MAX_OPLOG_ENTRIES rows of the old rows followed by the new one
C12_OplogBounded ==
    \A d \in Stores :
        /\ Len(d.oplog) <= MAX_OPLOG_ENTRIES
        /\ \A operation \in {"forget", "recall"}, insight_id \in {NoId, 1} :
               LET all == Append(d.oplog, [operation |-> operation,
                                           insight_id |-> insight_id])
                   after == log_op(d, operation, insight_id).oplog
               IN /\ Len(after) = Min(Len(all), MAX_OPLOG_ENTRIES)
                  /\ after = LastRows(all, Len(after))

\* the oplog is full, and more rows were written than it holds: a
\* remember logged its row and a later command logged the row that is
\* the last one now
C12_Witness ==
    /\ Len(db.oplog) = MAX_OPLOG_ENTRIES
    /\ outcome.action \in {"added", "updated"}
    /\ clock > MAX_OPLOG_ENTRIES
    /\ db.oplog[Len(db.oplog)].operation \in {"forget", "gc-keep", "search"}

\* the insights of d that a prune may take: active, not immune, not in
\* the exclude list
Eligible(d, exclude_ids) ==
    {id \in ActiveIds(d) \ exclude_ids :
        ~is_immune(d.insights[id].importance, d.insights[id].access_count)}

InvalidArguments(a, d) ==
    CASE a.command = "remember" ->
             \/ ContentBytes(a.args.content) > 8000
             \/ a.args.category \notin VALID_CATEGORIES
             \/ a.args.importance \notin 1..5
             \/ a.args.n_tags > 20
             \/ a.args.n_entities > 50
      [] a.command = "link" ->
             \/ a.args.edge_type \notin
                    {"temporal", "semantic", "causal", "entity"}
             \/ IsNaN(a.args.weight)
             \/ a.args.weight[1] < 0
             \/ a.args.weight[1] > a.args.weight[2]
             \/ a.args.source_id \notin ActiveIds(d)
             \/ a.args.target_id \notin ActiveIds(d)
      [] a.command = "store create" ->
             ~valid_store_name(a.args)

\* C14: a remember with a content over 8000 bytes, an invalid category, an
\* importance outside 1..5, more than 20 tags or more than 50 entities, a
\* link with an invalid edge type, a weight outside [0,1] or an endpoint
\* that is missing or soft-deleted, and a store create with an invalid
\* name, each report an error and leave the insights, the edges, the oplog
\* and the set of stores as they were.
C14_FailuresMutateNothing ==
    [][(/\ applied' /= NULL
        /\ \/ applied = NULL
           \/ applied[1].command /= applied'[1].command
           \/ applied' /= applied
        /\ InvalidArguments(applied'[1], db))
       => /\ applied'[1].error /= ""
          /\ UNCHANGED <<db, tx, procs, stores>>]_vars

\* C15: soft_delete_insight on an id that has no row or whose row is
\* already soft-deleted fails, and leaves the store it was called on as it
\* was: no deleted_at or updated_at is changed and no edge is deleted.
C15_SoftDeleteFailureLeavesStore ==
    \A d \in Stores : \A id \in Ids \ ActiveIds(d) :
        LET r == soft_delete_insight(d, id, clock)
        IN ~r.ok /\ r.db = d

\* a remember whose soft delete of the replaced insight has failed, in a
\* store where a soft-deleted insight has edges and another id has no row
C15_Witness ==
    /\ "soft_delete_insight" \in outcome.raised
    /\ Ids \ RowIds(db) /= {}
    /\ \E id \in RowIds(db) \ ActiveIds(db) :
           /\ get_edges_by_node(db, id) /= {}
           /\ ~soft_delete_insight(db, id, clock).ok

\* C16: a call of in_transaction made while another call on the same
\* handle is running is refused with RuntimeError before anything is
\* executed (the flag, the connection and the rows are as they were, and
\* its caller is resumed with the error); and once a call made by the
\* program has returned or raised, the flag is clear, so that the next
\* call is accepted.
C16_NestedRejectedFlagCleared ==
    [][LET n == Len(handle.frames)
           checking == n >= 1 /\ Top(handle).pc = "check"
       IN /\ (checking /\ n >= 2)
             => /\ Len(handle'.frames) = n - 1
                /\ Top(handle').pc \in {"rollback", "fn2", "fn3"}
                /\ Top(handle').pc = "rollback"
                       => Top(handle').exc = "RuntimeError"
                /\ handle'.in_tx /\ handle.in_tx
                /\ handle'.conn = handle.conn
                /\ handle'.pending = handle.pending
                /\ handle'.committed = handle.committed
          /\ handle'.frames = <<>> => ~handle'.in_tx
          /\ (checking /\ n = 1)
             => /\ Len(handle'.frames) = 1
                /\ Top(handle').pc = "begin"
                /\ handle'.in_tx]_handle

\* a call whose closure made the nested call has raised RuntimeError, one
\* whose closure caught the error of two nested calls has committed its
\* row, and the next call has been accepted and is running its closure
C16_Witness ==
    /\ Len(handle.returned) = 2
    /\ handle.returned[1] = [fn |-> "nested", result |-> "RuntimeError"]
    /\ handle.returned[2] = [fn |-> "nested_caught", result |-> ""]
    /\ handle.committed = 1
    /\ Len(handle.frames) = 1
    /\ Top(handle).pc = "fn"

\* C17: when insert_edge raises for some of the edges the generators
\* write for a new insight, the transaction is not aborted (the insight is
\* committed), every other edge is written, those of the same generator
\* and those of the generators after it, and the count each of temporal,
\* entity, causal and semantic reports is the number of edge rows it wrote.
C17_EdgeFailureSwallowed ==
    [][(/\ applied' /= applied
        /\ applied'[1].command = "on_insight_created")
       => LET a == applied'[1]
              unfailing == on_insight_created(tx[1].work,
                               Insight(procs[a.id]),
                               procs[a.id].embed_cache, clock, {}).db.edges
          IN /\ outcome'.action /= "error"
             /\ a.id \in ActiveIds(db')
             /\ a.after = a.before
                    \cup {e \in unfailing : EdgeKey(e) \notin a.failing}
             /\ \A g \in VALID_EDGE_TYPES :
                    a.edge_stats[g] =
                        Cardinality({e \in a.after \ a.before :
                                        e.edge_type = g})]_vars

\* v can be reached from u along one causal edge or more, all between
\* ids of S
CausalPath(d, S, u, v) ==
    LET Step(R) == R \cup UNION {CausalTargets(d, S, n) : n \in R}
        first == CausalTargets(d, S, u)
    IN v \in Step(Step(Step(Step(first))))

\* the position of the result with this id
Position(list, id) == CHOOSE i \in 1..Len(list) : list[i].id = id

\* C18: for the intent WHY the list returned holds the reranked and
\* truncated results, each once; when the causal edges between the ids
\* returned have no cycle, the source of each of them comes before its
\* target; when they have one, the results on a cycle or reached from one
\* come last, in the order they had before the sort, after the others,
\* which have every source before its target.
C18_CausesBeforeEffects ==
    recalled.sorted /= NULL =>
        LET results == recalled.results
            sorted == recalled.sorted[1]
            S == {results[i].id : i \in 1..Len(results)}
            stuck == {v \in S : \E u \in S :
                         /\ CausalPath(db, S, u, u)
                         /\ (u = v \/ CausalPath(db, S, u, v))}
            IsStuck(r) == r.id \in stuck
        IN /\ Len(sorted) = Len(results)
           /\ Range(sorted) = Range(results)
           /\ \A u \in S \ stuck : \A v \in CausalTargets(db, S, u) \ stuck :
                  Position(sorted, u) < Position(sorted, v)
           /\ \A u \in S \ stuck : \A v \in stuck :
                  Position(sorted, u) < Position(sorted, v)
           /\ SelectSeq(sorted, IsStuck) = SelectSeq(results, IsStuck)

\* three results sorted: the last one on a causal loop, and the second
\* one, a cause of the first, moved before it
C18_Witness ==
    /\ recalled.sorted /= NULL
    /\ Len(recalled.results) = 3
    /\ LET results == recalled.results
           sorted == recalled.sorted[1]
           S == {results[i].id : i \in 1..3}
       IN /\ results[3].id \in CausalTargets(db, S, results[3].id)
          /\ results[1].id \in CausalTargets(db, S, results[2].id)
          /\ sorted = <<results[2], results[1], results[3]>>

\* C19: at every point of a recall the number of ids in score_map, which
\* the recall reports as `traversed`, is at most max_visited, the passes
\* of all the anchors counted together.
C19_GlobalVisitedCap == Cardinality(DOMAIN beam.score_map) <= MAX_VISITED

\* the bounds of one pass: the level expanded is below max_depth, at most
\* beam_width items are carried into a level, and no id is enqueued twice
PassBounded(p) ==
    /\ p.depth <= MAX_DEPTH
    /\ p.phase \in {"nodes", "edges"} => p.depth < MAX_DEPTH
    /\ p.depth >= 1 => Len(p.current) <= BEAM_WIDTH
    /\ \A i, j \in 1..Len(p.enqueued) :
           p.enqueued[i] = p.enqueued[j] => i = j
    /\ \A i \in 1..Len(p.enqueued) : p.enqueued[i] /= p.start
    /\ \A x, y \in p.next_items : x.id = y.id => x = y

\* a step keeps every entry of score_map or raises it, and an entry that
\* is new or raised has the type of the edge just read in via_map
ScoresOnlyRaised ==
    /\ DOMAIN beam.score_map \subseteq DOMAIN beam'.score_map
    /\ \A id \in DOMAIN beam.score_map :
           /\ beam'.score_map[id] >= beam.score_map[id]
           /\ beam'.score_map[id] = beam.score_map[id]
                  => beam'.via_map[id] = beam.via_map[id]
    /\ \A id \in DOMAIN beam'.score_map :
           (id \notin DOMAIN beam.score_map
                \/ beam'.score_map[id] > beam.score_map[id])
               => /\ beam'.pass /= NULL
                  /\ beam'.via_map[id] = beam'.pass[1].via

\* C20: a beam pass from an anchor ends on every graph, cyclic ones
\* included; while it runs it expands at most max_depth levels, carries at
\* most beam_width items from one level to the next, enqueues no id twice,
\* and changes an entry of score_map only to a strictly larger score, with
\* via_map set to the type of the edge that gave it.
C20_BeamPassTerminates ==
    /\ [][/\ ScoresOnlyRaised
          /\ beam'.pass /= NULL => PassBounded(beam'.pass[1])]_vars
    /\ (beam.pass /= NULL) ~> (beam.pass = NULL)

\* a pass that went round a cycle back to its anchor and raised the
\* anchor's score, and that pruned the next level to beam_width items
C20_Witness ==
    /\ beam.pass /= NULL
    /\ beam.pass[1].phase = "level"
    /\ beam.pass[1].depth >= 1
    /\ beam.score_map[beam.pass[1].start] > beam.pass[1].start_score
    /\ Cardinality(beam.pass[1].next_items) > BEAM_WIDTH
    /\ Len(beam.pass[1].current) = BEAM_WIDTH

\* C21: classify_suggestion returns ADD when sim < 0.5, CONFLICT when
\* 0.5 <= sim <= 0.9 and one of the two texts has a negation phrase,
\* DUPLICATE whenever sim > 0.9, and UPDATE otherwise.
C21_ClassifyTable ==
    (called.fn = "classify_suggestion" /\ called.result /= NULL) =>
        LET sim == called.args.similarity
            negated == \/ has_negation(called.args.new_text)
                       \/ has_negation(called.args.existing_text)
        IN called.result[1] =
               IF 2 * sim < SimSteps THEN "ADD"
               ELSE IF 10 * sim > 9 * SimSteps THEN "DUPLICATE"
               ELSE IF negated THEN "CONFLICT"
               ELSE "UPDATE"

\* C22: detect_intent returns WHY, WHEN or ENTITY only when that class's
\* keyword count is strictly greater than the counts of both other
\* classes, and GENERAL whenever the highest count is shared or all three
\* counts are zero.
C22_TiesAndZerosGeneral ==
    (called.fn = "detect_intent" /\ called.result /= NULL) =>
        LET count == [c \in {"WHY", "WHEN", "ENTITY"} |->
                         FindallCount(
                             CASE c = "WHY" -> WHY_PATTERN
                               [] c = "WHEN" -> WHEN_PATTERN
                               [] OTHER -> ENTITY_PATTERN,
                             called.args)]
            Strict(c) == \A o \in DOMAIN count \ {c} : count[c] > count[o]
        IN IF \E c \in DOMAIN count : Strict(c)
           THEN Strict(called.result[1])
           ELSE called.result[1] = "GENERAL"

\* what the causal generator is to write for the new insight of the step,
\* none of its inserts failing: for each of the CAUSAL_LOOKBACK most recent
\* active insights p with an overlap of 0.15 or more and a causal signal
\* in one of the two texts, one edge between the two, weighing
\* |A \cap B| / max(|A|, |B|), from p to the new insight unless only p
\* has the signal; for any other p, none.  ExampleWeight is the weight
\* expected of the edge from "Go compiles fast with static linking" to
\* "Chose Go because it compiles fast".
CausalEdgesAsStated(ExampleWeight(_)) ==
    (/\ applied' /= applied
     /\ applied'[1].command = "on_insight_created"
     /\ applied'[1].failing = {})
    => LET a == applied'[1]
           work == tx[1].work
           n == a.id
           A == tokenize(work.insights[n].content)
           recent == Range(Take(ByCreatedDesc(work, ActiveIds(work) \ {n}),
                                CAUSAL_LOOKBACK))
           B(p) == tokenize(work.insights[p].content)
           Signal(id) == has_causal_signal(work.insights[id].content)
           Between(p) == {e \in a.after :
                             /\ e.edge_type = "causal"
                             /\ {e.source_id, e.target_id} = {n, p}}
           Qualifies(p) ==
               /\ p \in recent
               /\ A /= {} /\ B(p) /= {}
               /\ 100 * Cardinality(A \cap B(p))
                      >= 15 * Max(Cardinality(A), Cardinality(B(p)))
               /\ Signal(n) \/ Signal(p)
       IN \A p \in DOMAIN work.insights \ {n} :
              IF Qualifies(p)
              THEN /\ Cardinality(Between(p)) = 1
                   /\ \A e \in Between(p) :
                          /\ e.weight[1]
                                 * Max(Cardinality(A), Cardinality(B(p)))
                               = Cardinality(A \cap B(p)) * e.weight[2]
                          /\ e.source_id =
                                 IF Signal(p) /\ ~Signal(n) THEN n ELSE p
                          /\ (/\ work.insights[p].content = "T1"
                              /\ work.insights[n].content = "T2")
                               => /\ e.metadata.sub_type = "causes"
                                  /\ ExampleWeight(e.weight)
              ELSE Between(p) = {}

\* a weight that rounds to 0.33
About033(weight) ==
    /\ 200 * weight[1] >= 65 * weight[2]
    /\ 200 * weight[1] < 67 * weight[2]

\* the weight 0.6
Exactly06(weight) == 5 * weight[1] = 3 * weight[2]

\* C23 as stated: the causal generator writes one edge per qualifying
\* recent insight, weighing |A \cap B| / max(|A|, |B|), from cause to
\* effect; for "Go compiles fast with static linking" followed by "Chose Go
\* because it compiles fast" the edge has sub_type causes and weight about
\* 0.33.
C23_CausalEdgeExample033 == [][CausalEdgesAsStated(About033)]_vars

\* C23: the causal generator writes one edge per qualifying recent
\* insight, weighing |A \cap B| / max(|A|, |B|), from cause to effect; for
\* "Go compiles fast with static linking" followed by "Chose Go because it
\* compiles fast" the edge has sub_type causes and weight 3/5 = 0.6.
C23_CausalEdgeDirected == [][CausalEdgesAsStated(Exactly06)]_vars

\* the generator has written the edge of the example, and in another step
\* an edge from the new insight to an older one that alone has the signal
C23_Witness ==
    /\ applied /= NULL
    /\ applied[1].command = "on_insight_created"
    /\ applied[1].failing = {}
    /\ \E e \in applied[1].after :
           /\ e.edge_type = "causal"
           /\ e.target_id = applied[1].id
           /\ db.insights[e.source_id].content = "T1"
           /\ db.insights[e.target_id].content = "T2"
           /\ e.weight = <<3, 5>>
    /\ \E e \in db.edges :
           /\ e.edge_type = "causal"
           /\ e.source_id > e.target_id
           /\ ~has_causal_signal(db.insights[e.source_id].content)

\* C24: the recall response has the hint sparse_results exactly when the
\* number of results returned is below limit / 2 (2 results with limit 5,
\* for one), and no hint otherwise.
C24_SparseHintBelowHalf ==
    (called.fn = "intent_aware_recall" /\ called.result /= NULL) =>
        (called.result[1].hint = "sparse_results"
            <=> 2 * called.result[1].results < called.args.limit)

\* the insights that are the start or active and at most k hops from the
\* start, over the edges of the type asked for taken in both directions
\* and through the start and active insights only
RECURSIVE WithinHops(_, _, _, _)
WithinHops(d, start, edge_filter, k) ==
    IF k = 0 THEN {start}
    ELSE LET near == WithinHops(d, start, edge_filter, k - 1)
         IN near \cup
            {n \in ActiveIds(d) :
                \E e \in d.edges :
                    /\ edge_filter \in {"", e.edge_type}
                    /\ \/ e.source_id \in near /\ e.target_id = n
                       \/ e.target_id \in near /\ e.source_id = n}

\* what bfs has found so far is within the claim
BfsFoundAsClaimed ==
    called.fn = "bfs" =>
        LET found == called.found
            o == called.args
        IN /\ \A i, j \in 1..Len(found) : found[i].id = found[j].id => i = j
           /\ \A i \in 1..Len(found) :
                  /\ found[i].id /= o.start_id
                  /\ found[i].id \in ActiveIds(db)
                  /\ found[i].hop >= 1
                  /\ found[i].hop <= o.max_depth
                  /\ found[i].id \in WithinHops(db, o.start_id,
                                               o.edge_filter, found[i].hop)
                  /\ found[i].id \notin WithinHops(db, o.start_id,
                                                  o.edge_filter,
                                                  found[i].hop - 1)
           /\ o.max_nodes > 0 => Len(found) <= o.max_nodes
           /\ called.result /= NULL => called.result[1] = found

\* C25: bfs from a start id ends on every graph, cyclic ones included, and
\* returns each active insight at most once and never the start, with its
\* shortest hop distance from the start over the edges of the type asked
\* for, taken in both directions and through active insights only; no
\* insight returned is more than max_depth hops away and, when max_nodes
\* > 0, at most max_nodes are returned.
C25_BfsShortestOnce ==
    /\ []BfsFoundAsClaimed
    /\ <>(called.result /= NULL)

\* bfs has returned from a graph with a cycle through the start: an
\* insight two hops away is in the result, which max_nodes has cut
C25_Witness ==
    /\ called.fn = "bfs"
    /\ called.result /= NULL
    /\ called.args.max_nodes = 2
    /\ Len(called.result[1]) = 2
    /\ called.result[1][2].hop = 2
    /\ called.args.start_id = 1
    /\ {e.target_id : e \in {x \in db.edges : x.source_id = 2}} = {1, 2}
    /\ Cardinality(db.edges) >= 4

\* C26: the insight a remember has written, as added or as updated, is
\* active in the state the command leaves when it ends, whatever its
\* prune has deleted.
C26_NewInsightNotPruned ==
    [][(outcome' /= outcome /\ outcome'.action \in {"added", "updated"})
       => outcome'.id \in ActiveIds(db')]_vars

\* a remember has ended with a prune that deleted an insight while the
\* insight it wrote, itself open to pruning, has an effective importance
\* no higher than any insight deleted
C26_Witness ==
    /\ outcome.action \in {"added", "updated"}
    /\ outcome.pruned > 0
    /\ outcome.id \in ActiveIds(db)
    /\ db.insights[outcome.id].importance < 4
    /\ db.insights[outcome.id].access_count < 3
    /\ RowIds(db) \ ActiveIds(db) /= {}
    /\ \A v \in RowIds(db) \ ActiveIds(db) :
           db.insights[v].effective_importance
               >= db.insights[outcome.id].effective_importance

\* the newest oplog row after the step
LastOp == db'.oplog[Len(db'.oplog)]

C28_DuplicateOnlyLogs ==
    [][/\ (outcome' = outcome /\ DOMAIN procs' /= DOMAIN procs
              /\ DOMAIN procs \subseteq DOMAIN procs')
          => db' = db
       /\ (outcome' /= outcome /\ outcome'.action = "skipped")
          => LET all == Append(db.oplog,
                               [operation |-> "diff-skip",
                                insight_id |-> outcome'.id])
             IN /\ procs[outcome'.id].diff_action = "skipped"
                /\ db'.insights = db.insights
                /\ db'.edges = db.edges
                /\ outcome'.id \notin RowIds(db')
                /\ outcome'.pruned = 0
                /\ db'.oplog =
                       LastRows(all, Min(Len(all), MAX_OPLOG_ENTRIES))]_vars

\* a remember of content that an active insight already holds has been
\* skipped, in a store with edges
C28_Witness ==
    /\ outcome.action = "skipped"
    /\ outcome.id \notin RowIds(db)
    /\ db.oplog[Len(db.oplog)]
           = [operation |-> "diff-skip", insight_id |-> outcome.id]
    /\ \E id \in ActiveIds(db) : db.insights[id].content = "T4"
    /\ db.edges /= {}

\* C29: writes are serialised over the transaction body only.  While a
\* remember holds its transaction no other command changes the store; the
\* verdict of the diff, made from reads before BEGIN IMMEDIATE, is the
\* action the remember commits with whatever the store holds by then, so
\* that two remembers of the same content can both commit as added; and a
\* remember whose replaced insight is no longer active when its
\* transaction runs still commits its new insight, as updated.
C29_SerialisedBodyOnly ==
    [][/\ (tx /= NULL /\ tx' /= NULL) => (tx' = tx /\ db' = db)
       /\ (RememberCommitted /\ outcome'.raised \subseteq {"soft_delete_insight"})
          => /\ outcome'.action = procs[outcome'.id].diff_action
             /\ outcome'.id \in ActiveIds(db')
             /\ outcome'.id \notin RowIds(db)
       /\ (RememberTxEnded /\ outcome'.raised = {"soft_delete_insight"})
          => /\ outcome'.action = "updated"
             /\ procs[outcome'.id].replaced_id \notin ActiveIds(db')
             /\ outcome'.id \in ActiveIds(db')]_vars

\* two remembers of the same content, both with the diff, ran at the same
\* time on an empty store and both committed as added: the store holds
\* two active insights with that content and no other row
C29_Witness ==
    /\ outcome.action = "added"
    /\ outcome.raised = {}
    /\ RowIds(db) = {1, 2}
    /\ ActiveIds(db) = {1, 2}
    /\ db.insights[1].content = "T4"
    /\ db.insights[2].content = "T4"
    /\ procs = <<>>


\* the names the specification allows: [A-Za-z0-9][A-Za-z0-9_-]* and nothing
\* else
NameAllowed(name) ==
    /\ Len(name) >= 1
    /\ name[1] \in AlphaNum
    /\ \A i \in 1..Len(name) : name[i] \in AlphaNum \cup {"_", "-"}

\* C30: store remove never deletes the store named in the `active` file,
\* store set only points `active` at a store that exists, and store create
\* refuses an invalid or already existing name; hence, after any sequence
\* of store create, store set and store remove, once store set has
\* succeeded the store that `active` names exists.
C30_StoreManagerSafe ==
    [][LET command == applied'[1]
       IN /\ command.command = "store remove"
                => (store_exists(read_active) => store_exists(read_active)')
          /\ (command.command = "store set" /\ command.error = "")
                => store_exists(read_active)'
          /\ (/\ command.command = "store create"
              /\ ~NameAllowed(command.args) \/ command.args \in stores)
                => (command.error /= "" /\ stores' = stores)
          /\ active_file' /= NULL => store_exists(read_active)']_vars

====
